---- MODULE Spec2Model ----
(***************************************************************************)
(* Solar pipeline: date resolution (parse_date), forecast extraction       *)
(* (extract_forecast), battery prognosis (calculate_battery_prognosis),    *)
(* the CSV snapshot/history store (write_snapshot_csv, upsert_history_csv) *)
(* and the orchestrator (run_pipeline).                                    *)
(*                                                                         *)
(* A calendar date (a datetime at midnight) is its proleptic Gregorian     *)
(* ordinal, as datetime.toordinal() gives it.  A text is a sequence of     *)
(* whitespace-separated tokens; a word is a sequence of one-character      *)
(* strings, so that substring tests and lower() are computed.              *)
(***************************************************************************)
EXTENDS Integers, Sequences, FiniteSets, TLC

VARIABLES
    \* ---- one call of parse_date
    pd_pc,          \* "call" before the call, "ret" after it
    pd_text,        \* argument text
    pd_today,       \* argument today
    pd_index,       \* argument index
    pd_seen,        \* seen_dates when the call starts
    pd_ret,         \* the returned date, <<>> before the return
    pd_seen_out,    \* seen_dates when the call returns
    \* ---- one run of extract_forecast
    ex_pc,          \* "headers", "markers", "finish", "done"
    ex_page,        \* the parsed page: a sequence of segments
    ex_today,       \* today
    ex_i,           \* index of the next date element / marker to visit
    ex_date_map,    \* date_map: a set of [pos, date], one per position
    ex_temp_seen,   \* temp_seen
    ex_seen,        \* seen_dates
    ex_last,        \* last_parsed_date
    ex_daily,       \* daily_data, then unique_daily_data
    ex_hourly,      \* hourly_data
    ex_parsed,      \* per marker visited: parsed_date, value_kwh, how it was resolved
    \* ---- calls of write_snapshot_csv and upsert_history_csv on two targets
    st_hist,        \* the history file
    st_snap,        \* the snapshot file
    st_prev_hist,   \* the history file before the last call
    st_prev_snap,   \* the snapshot file before the last call
    st_op,          \* the last call: name, records, return value
    st_prev_op,     \* the call before it
    st_calls,       \* number of calls made
    \* ---- one call of calculate_battery_prognosis
    pg_pc,          \* "call" before the call, "ret" after it
    pg_daily,       \* argument daily_data
    pg_config,      \* argument config
    pg_out,         \* what the call produced
    \* ---- runs of run_pipeline over the six output files
    pl_files,       \* the six files
    pl_before,      \* the six files before the last run
    pl_run,         \* the last run: its inputs and its return value
    pl_runs,        \* number of runs made
    \* ---- overlapping calls of upsert_history_csv on one history file
    cc_hist,        \* the history file
    cc_pc,          \* per call: "start", "read" (the file was read), "done"
    cc_records,     \* per call: its records
    cc_read,        \* per call: what it read (filepath.exists(), df_existing)
    \* ---- the configuration: DEFAULT_CONFIG, config.yaml and the GUI form
    cf_heap,        \* the dict objects reachable from DEFAULT_CONFIG
    cf_file,        \* config.yaml
    cf_op,          \* the last operation and the configuration it got
    cf_ops,         \* number of operations made
    \* ---- one call of fetch_html
    fh_pc,          \* "call", "loop", "ret" (returned), "raised" (an error left the call)
    fh_max,         \* argument max_retries
    fh_delay,       \* argument retry_delay, in seconds
    fh_attempt,     \* the loop variable attempt
    fh_log,         \* the requests made and the waits, in order
    fh_ret          \* <<>> before the return, then <<text>> or <<None>>

pvars == <<pd_pc, pd_text, pd_today, pd_index, pd_seen, pd_ret, pd_seen_out>>

evars == <<ex_pc, ex_page, ex_today, ex_i, ex_date_map, ex_temp_seen, ex_seen,
           ex_last, ex_daily, ex_hourly, ex_parsed>>

svars == <<st_hist, st_snap, st_prev_hist, st_prev_snap, st_op, st_prev_op, st_calls>>

gvars == <<pg_pc, pg_daily, pg_config, pg_out>>

lvars == <<pl_files, pl_before, pl_run, pl_runs>>

cvars == <<cc_hist, cc_pc, cc_records, cc_read>>

fvars == <<cf_heap, cf_file, cf_op, cf_ops>>

hvars == <<fh_pc, fh_max, fh_delay, fh_attempt, fh_log, fh_ret>>

vars == <<pvars, evars, svars, gvars, lvars, cvars, fvars, hvars>>

\* The variables of a part that a specification does not exercise.
IdleParse ==
    /\ pd_pc = "idle"
    /\ pd_text = <<>>
    /\ pd_today = 0
    /\ pd_index = 0
    /\ pd_seen = {}
    /\ pd_ret = <<>>
    /\ pd_seen_out = {}

IdleExtract ==
    /\ ex_pc = "idle"
    /\ ex_page = <<>>
    /\ ex_today = 0
    /\ ex_i = 0
    /\ ex_date_map = {}
    /\ ex_temp_seen = {}
    /\ ex_seen = {}
    /\ ex_last = 0
    /\ ex_daily = <<>>
    /\ ex_hourly = <<>>
    /\ ex_parsed = <<>>

IdleStore ==
    /\ st_hist = <<>>
    /\ st_snap = <<>>
    /\ st_prev_hist = <<>>
    /\ st_prev_snap = <<>>
    /\ st_op = <<>>
    /\ st_prev_op = <<>>
    /\ st_calls = 0

IdlePrognosis ==
    /\ pg_pc = "idle"
    /\ pg_daily = <<>>
    /\ pg_config = <<>>
    /\ pg_out = <<>>

IdlePipeline ==
    /\ pl_files = <<>>
    /\ pl_before = <<>>
    /\ pl_run = <<>>
    /\ pl_runs = 0

IdleConcurrent ==
    /\ cc_hist = <<>>
    /\ cc_pc = <<>>
    /\ cc_records = <<>>
    /\ cc_read = <<>>

IdleConfig ==
    /\ cf_heap = <<>>
    /\ cf_file = <<>>
    /\ cf_op = <<>>
    /\ cf_ops = 0

IdleFetch ==
    /\ fh_pc = "idle"
    /\ fh_max = 0
    /\ fh_delay = 0
    /\ fh_attempt = 0
    /\ fh_log = <<>>
    /\ fh_ret = <<>>

\* ------------------------------------------------------------------ bounds
MaxTextLen == 2         \* tokens in a text handed to parse_date
MaxIndex == 2           \* largest index hint handed to parse_date
MaxSegments == 4        \* segments of a page handed to extract_forecast
MaxRecords == 2         \* records handed to one call of the store
MaxCalls == 3           \* calls of the store in one behaviour
MaxRuns == 2            \* runs of the pipeline in one behaviour
MaxOps == 3             \* operations on the configuration in one behaviour
MaxRetries == 4         \* largest max_retries handed to fetch_html
MaxDelay == 2           \* largest retry_delay handed to fetch_html, in seconds

\* ------------------------------------------------------ program constants
ContextChars == 3000    \* characters of context before a marker
HourlyChars == 2000     \* characters of the context scanned for hourly readings

\* ---------------------------------------------------------------- calendar
IsLeap(y) == y % 4 = 0 /\ (y % 100 # 0 \/ y % 400 = 0)

DaysInMonth(y, m) ==
    CASE m \in {1, 3, 5, 7, 8, 10, 12} -> 31
      [] m \in {4, 6, 9, 11} -> 30
      [] OTHER -> IF IsLeap(y) THEN 29 ELSE 28

DaysBeforeYear(y) ==
    (y - 1) * 365 + ((y - 1) \div 4) - ((y - 1) \div 100) + ((y - 1) \div 400)

RECURSIVE DaysBeforeMonth(_, _)
DaysBeforeMonth(y, m) ==
    IF m = 1 THEN 0 ELSE DaysBeforeMonth(y, m - 1) + DaysInMonth(y, m - 1)

\* datetime(year, month, day) raises ValueError exactly when this is false.
ValidYmd(y, m, d) ==
    y \in 1..9999 /\ m \in 1..12 /\ d >= 1 /\ d <= DaysInMonth(y, m)

\* datetime(year, month, day), for a valid triple.
datetime(y, m, d) == DaysBeforeYear(y) + DaysBeforeMonth(y, m) + d

YearOf(o) ==
    CHOOSE y \in (o \div 366)..((o \div 365) + 1) :
        DaysBeforeYear(y) < o /\ o <= DaysBeforeYear(y + 1)

MonthOf(o) ==
    LET y == YearOf(o)
        n == o - DaysBeforeYear(y)
    IN  CHOOSE m \in 1..12 :
            DaysBeforeMonth(y, m) < n /\ n <= DaysBeforeMonth(y, m) + DaysInMonth(y, m)

DayOf(o) == o - DaysBeforeYear(YearOf(o)) - DaysBeforeMonth(YearOf(o), MonthOf(o))

\* ------------------------------------------------------------------- text
UpperChars == <<"A", "B", "C", "D", "E", "F", "G", "H", "I", "J", "K", "L", "M",
                "N", "O", "P", "Q", "R", "S", "T", "U", "V", "W", "X", "Y", "Z">>
LowerChars == <<"a", "b", "c", "d", "e", "f", "g", "h", "i", "j", "k", "l", "m",
                "n", "o", "p", "q", "r", "s", "t", "u", "v", "w", "x", "y", "z">>

\* str.lower() on one character.
LowerChar(c) ==
    IF \E i \in 1..26 : UpperChars[i] = c
    THEN LowerChars[CHOOSE i \in 1..26 : UpperChars[i] = c]
    ELSE c

\* Tokens of a text.
Word(cs) == [k |-> "word", cs |-> cs]                   \* letters
Num(ds) == [k |-> "num", ds |-> ds]                     \* a run of digits
Ymd(y, m, d) == [k |-> "ymd", y |-> y, m |-> m, d |-> d]            \* "2026-01-19"
Dmy(sep, d, m, y) == [k |-> "dmy", sep |-> sep, d |-> d, m |-> m, y |-> y] \* "19/01/2026", "19-01-2026"

\* text.lower(): only letters change.
LowerText(text) ==
    [i \in 1..Len(text) |->
        IF text[i].k = "word"
        THEN Word([j \in 1..Len(text[i].cs) |-> LowerChar(text[i].cs[j])])
        ELSE text[i]]

\* needle occurs in the character sequence cs at offset p (0-based).
OccursAt(needle, cs, p) ==
    /\ p + Len(needle) <= Len(cs)
    /\ \A j \in 1..Len(needle) : cs[p + j] = needle[j]

\* `needle in text`: the needle is letters only, so it lies within one word.
InText(needle, text) ==
    \E i \in 1..Len(text) :
        /\ text[i].k = "word"
        /\ \E p \in 0..Len(text[i].cs) : OccursAt(needle, text[i].cs, p)

\* The digits a token starts with, as the regex (\d{1,2}) captures them:
\* at most two, greedily; <<>> when the token does not start with a digit.
DigitsOf(n) == IF n < 10 THEN <<n>> ELSE <<n \div 10, n % 10>>

LeadingDigits(tok) ==
    CASE tok.k = "num" -> SubSeq(tok.ds, 1, IF Len(tok.ds) > 2 THEN 2 ELSE Len(tok.ds))
      [] tok.k = "ymd" -> <<(tok.y \div 1000) % 10, (tok.y \div 100) % 10>>
      [] tok.k = "dmy" -> DigitsOf(tok.d)
      [] tok.k = "hourly" -> DigitsOf(tok.h)
      [] OTHER -> <<>>

\* int() of a captured digit string.
ToInt(ds) == IF Len(ds) = 1 THEN ds[1] ELSE ds[1] * 10 + ds[2]

\* ------------------------------------------------------------ parse_date
\* The months dict, in insertion order (the order the loop visits it).
months == <<
    [name |-> <<"j","a","n","u","a","r","y">>, num |-> 1],
    [name |-> <<"f","e","b","r","u","a","r","y">>, num |-> 2],
    [name |-> <<"m","a","r","c","h">>, num |-> 3],
    [name |-> <<"a","p","r","i","l">>, num |-> 4],
    [name |-> <<"m","a","y">>, num |-> 5],
    [name |-> <<"j","u","n","e">>, num |-> 6],
    [name |-> <<"j","u","l","y">>, num |-> 7],
    [name |-> <<"a","u","g","u","s","t">>, num |-> 8],
    [name |-> <<"s","e","p","t","e","m","b","e","r">>, num |-> 9],
    [name |-> <<"o","c","t","o","b","e","r">>, num |-> 10],
    [name |-> <<"n","o","v","e","m","b","e","r">>, num |-> 11],
    [name |-> <<"d","e","c","e","m","b","e","r">>, num |-> 12],
    [name |-> <<"j","a","n">>, num |-> 1],
    [name |-> <<"f","e","b">>, num |-> 2],
    [name |-> <<"m","a","r">>, num |-> 3],
    [name |-> <<"a","p","r">>, num |-> 4],
    [name |-> <<"j","u","n">>, num |-> 6],
    [name |-> <<"j","u","l">>, num |-> 7],
    [name |-> <<"a","u","g">>, num |-> 8],
    [name |-> <<"s","e","p">>, num |-> 9],
    [name |-> <<"o","c","t">>, num |-> 10],
    [name |-> <<"n","o","v">>, num |-> 11],
    [name |-> <<"d","e","c">>, num |-> 12] >>

w_today == <<"t","o","d","a","y">>
w_tomorrow == <<"t","o","m","o","r","r","o","w">>

\* re.search(month_name\s*,?\s*(\d{1,2}), text_lower): the positions where a
\* word ends with month_name and the next token starts with a digit.
MonthDayMatches(month_name, text_lower) ==
    {i \in 1..(Len(text_lower) - 1) :
        /\ text_lower[i].k = "word"
        /\ Len(text_lower[i].cs) >= Len(month_name)
        /\ OccursAt(month_name, text_lower[i].cs, Len(text_lower[i].cs) - Len(month_name))
        /\ LeadingDigits(text_lower[i + 1]) # <<>>}

Min(S) == CHOOSE x \in S : \A y \in S : x <= y
Max(S) == CHOOSE x \in S : \A y \in S : x >= y

\* AssumedYear with the day comparison dropped: only an earlier month rolls over.
AssumedYear_MonthOnly(today, month_num, day) ==
    IF month_num < MonthOf(today) THEN YearOf(today) + 1 ELSE YearOf(today)

\* AssumedYear without the rollover: always the reference year.
AssumedYear_ThisYear(today, month_num, day) == YearOf(today)

\* The year the month loop assumes: next year when the month/day is before today's.
AssumedYear(today, month_num, day) ==
    IF month_num < MonthOf(today) \/ (month_num = MonthOf(today) /\ day < DayOf(today))
    THEN YearOf(today) + 1
    ELSE YearOf(today)

\* One iteration of the month loop without the try/except around datetime(...),
\* the day count taken as it is written.
MonthCandidate_Unchecked(entry, text_lower, today, seen_dates) ==
    IF ~InText(entry.name, text_lower) THEN <<>>
    ELSE IF MonthDayMatches(entry.name, text_lower) = {} THEN <<>>
    ELSE <<datetime(AssumedYear(today, entry.num,
                        ToInt(LeadingDigits(text_lower[Min(MonthDayMatches(entry.name, text_lower)) + 1]))),
                    entry.num,
                    ToInt(LeadingDigits(text_lower[Min(MonthDayMatches(entry.name, text_lower)) + 1])))>>

\* One iteration of `for month_name, month_num in months.items()`: <<date>> when
\* the iteration returns, <<>> when the loop goes on.
MonthCandidate(entry, text_lower, today, seen_dates) ==
    IF ~InText(entry.name, text_lower) THEN <<>>
    ELSE LET hits == MonthDayMatches(entry.name, text_lower)
         IN  IF hits = {} THEN <<>>
             ELSE LET day == ToInt(LeadingDigits(text_lower[Min(hits) + 1]))
                      year == AssumedYear(today, entry.num, day)
                  IN  IF ValidYmd(year, entry.num, day)
                         /\ datetime(year, entry.num, day) \notin seen_dates
                      THEN <<datetime(year, entry.num, day)>>
                      ELSE <<>>

RECURSIVE MonthLoop(_, _, _, _)
MonthLoop(k, text_lower, today, seen_dates) ==
    IF k > Len(months) THEN <<>>
    ELSE LET c == MonthCandidate(months[k], text_lower, today, seen_dates)
         IN  IF c # <<>> THEN c ELSE MonthLoop(k + 1, text_lower, today, seen_dates)

\* date_patterns, in list order: re.search gives the leftmost match of each, and
\* the parser builds datetime(y, m, d) from its groups.  <<>>: no match.
PatternMatch(p, text) ==
    LET kind == IF p = 1 THEN "ymd" ELSE "dmy"
        sep == IF p = 2 THEN "/" ELSE "-"
        hits == {i \in 1..Len(text) :
                    /\ text[i].k = kind
                    /\ (kind = "dmy" => text[i].sep = sep)}
    IN  IF hits = {} THEN <<>> ELSE <<text[Min(hits)]>>

\* One date pattern without its `if date >= today` test.
PatternCandidate_AnyDate(p, text, today, seen_dates) ==
    LET m == PatternMatch(p, text)
    IN  IF m = <<>> THEN <<>>
        ELSE IF ~ValidYmd(m[1].y, m[1].m, m[1].d) THEN <<>>
        ELSE IF datetime(m[1].y, m[1].m, m[1].d) \notin seen_dates
             THEN <<datetime(m[1].y, m[1].m, m[1].d)>> ELSE <<>>

PatternCandidate(p, text, today, seen_dates) ==
    LET m == PatternMatch(p, text)
    IN  IF m = <<>> THEN <<>>
        ELSE IF ~ValidYmd(m[1].y, m[1].m, m[1].d) THEN <<>>      \* ValueError: pass
        ELSE LET date == datetime(m[1].y, m[1].m, m[1].d)
             IN  IF date >= today /\ date \notin seen_dates THEN <<date>> ELSE <<>>

RECURSIVE PatternLoop(_, _, _, _)
PatternLoop(p, text, today, seen_dates) ==
    IF p > 3 THEN <<>>
    ELSE LET c == PatternCandidate(p, text, today, seen_dates)
         IN  IF c # <<>> THEN c ELSE PatternLoop(p + 1, text, today, seen_dates)

\* The fallback without its `while fallback_date in seen_dates` loop.
FallbackDate_NoSkip(today, index, seen_dates) == today + index

\* The fallback loop: the first today + k, k >= index, not in seen_dates.
RECURSIVE FallbackDate(_, _, _)
FallbackDate(today, index, seen_dates) ==
    IF (today + index) \in seen_dates
    THEN FallbackDate(today, index + 1, seen_dates)
    ELSE today + index

\* The today / tomorrow branch without its `if date not in seen_dates` tests.
RelativeCandidate_Unchecked(text_lower, today, seen_dates) ==
    IF InText(w_today, text_lower) THEN <<today>>
    ELSE IF InText(w_tomorrow, text_lower) THEN <<today + 1>>
    ELSE <<>>

\* The today / tomorrow branch: `if 'today' in ... elif 'tomorrow' in ...`.
RelativeCandidate(text_lower, today, seen_dates) ==
    IF InText(w_today, text_lower)
    THEN (IF today \notin seen_dates THEN <<today>> ELSE <<>>)
    ELSE IF InText(w_tomorrow, text_lower)
    THEN (IF (today + 1) \notin seen_dates THEN <<today + 1>> ELSE <<>>)
    ELSE <<>>

\* The first branch of parse_date that returns: today/tomorrow, the month loop,
\* the date patterns, and last the fallback loop.
FirstCandidate(rel, mon, pat, today, index, seen_dates) ==
    IF rel # <<>> THEN rel[1]
    ELSE IF mon # <<>> THEN mon[1]
    ELSE IF pat # <<>> THEN pat[1]
    ELSE FallbackDate(today, index, seen_dates)

\* The date parse_date returns.
ParsedDate(text, today, index, seen_dates) ==
    FirstCandidate(RelativeCandidate(LowerText(text), today, seen_dates),
                   MonthLoop(1, LowerText(text), today, seen_dates),
                   PatternLoop(1, text, today, seen_dates),
                   today, index, seen_dates)

\* seen_dates.add(date); return date
AddSeen(date, seen_dates) == [date |-> date, seen |-> seen_dates \cup {date}]

\* parse_date that returns without seen_dates.add(date).
ParseDate_NoAdd(text, today, index, seen_dates) ==
    [date |-> ParsedDate(text, today, index, seen_dates), seen |-> seen_dates]

\* parse_date(text, today, index, seen_dates): the returned date and the set
\* seen_dates as the call leaves it.
ParseDate(text, today, index, seen_dates) ==
    AddSeen(ParsedDate(text, today, index, seen_dates), seen_dates)

\* --------------------------------------------- inputs handed to parse_date
TextTokens ==
    { Word(<<"T","o","d","a","y">>), Word(w_tomorrow),
      Word(<<"J","a","n","u","a","r","y">>), Word(<<"d","e","c">>), Word(<<"F","e","b">>),
      Word(<<"D","e","c","e","m","b","e","r">>),
      Num(<<5>>), Num(<<2,5>>), Num(<<3,0>>), Num(<<2,9>>), Num(<<0>>),
      Ymd(2026, 12, 24), Ymd(2027, 1, 3), Ymd(2026, 1, 10),
      Dmy("/", 21, 12, 2026), Dmy("-", 31, 2, 2027) }

RECURSIVE SeqsUpTo(_, _)
SeqsUpTo(S, n) ==
    IF n = 0 THEN {<<>>}
    ELSE LET shorter == SeqsUpTo(S, n - 1)
         IN  shorter \cup {Append(s, x) : s \in {t \in shorter : Len(t) = n - 1}, x \in S}

Todays == {datetime(2026, 1, 15), datetime(2026, 12, 20), datetime(2027, 12, 31)}

InitParse ==
    /\ IdleExtract
    /\ IdleStore
    /\ IdlePrognosis
    /\ IdlePipeline
    /\ IdleConcurrent
    /\ IdleConfig
    /\ IdleFetch
    /\ pd_pc = "call"
    /\ pd_text \in SeqsUpTo(TextTokens, MaxTextLen)
    /\ pd_today \in Todays
    /\ pd_index \in 0..MaxIndex
    /\ pd_seen \in SUBSET {pd_today, pd_today + 1, pd_today + 2}
    /\ pd_ret = <<>>
    /\ pd_seen_out = pd_seen

\* date = parse_date(text, today, index, seen_dates)
CallParseDate ==
    /\ pd_pc = "call"
    /\ LET r == ParseDate(pd_text, pd_today, pd_index, pd_seen)
       IN  /\ pd_ret' = <<r.date>>
           /\ pd_seen_out' = r.seen
    /\ pd_pc' = "ret"
    /\ UNCHANGED <<pd_text, pd_today, pd_index, pd_seen>>
    /\ UNCHANGED <<evars, svars, gvars, lvars, cvars, fvars, hvars>>

NextParse == CallParseDate

SpecParse == InitParse /\ [][NextParse]_vars

\* ------------------------------------------------------- extract_forecast
\* More tokens of a page.  A marker is one match of the "Total solar radiation:
\* <value> <unit>/m2" pattern (value in tenths, unit lower-cased); an hourly
\* reading is one match of "HH:MM <value> w/m2"; a pad is n characters that match
\* no pattern.
Marker(value, unit) == [k |-> "marker", value |-> value, unit |-> unit]
Hourly(h, mm, value) == [k |-> "hourly", h |-> h, mm |-> mm, value |-> value]
Pad(n) == [k |-> "pad", n |-> n]

\* A segment of the page: the text of one element.  elem: it is an h2/h3/h4/div/
\* span whose string is the whole text.
Segment(elem, text) == [elem |-> elem, text |-> text]

\* Printed length of a token, in characters.
TokLen(tok) ==
    CASE tok.k = "word" -> Len(tok.cs)
      [] tok.k = "num" -> Len(tok.ds)
      [] tok.k = "ymd" -> 10
      [] tok.k = "dmy" -> 10
      [] tok.k = "marker" -> 32
      [] tok.k = "hourly" -> 13
      [] tok.k = "pad" -> tok.n

\* soup.get_text(): the segments' tokens, in document order.
RECURSIVE AllText(_)
AllText(page) ==
    IF page = <<>> THEN <<>> ELSE Head(page).text \o AllText(Tail(page))

\* Character offset of token i of toks (a separator follows every token).
RECURSIVE Offset(_, _)
Offset(toks, i) ==
    IF i = 1 THEN 0 ELSE Offset(toks, i - 1) + TokLen(toks[i - 1]) + 1

\* total_matches: the indices of the marker tokens, in text order.
MarkerIndices(toks) == {i \in 1..Len(toks) : toks[i].k = "marker"}

RECURSIVE SortedSeq(_)
SortedSeq(S) == IF S = {} THEN <<>> ELSE <<Min(S)>> \o SortedSeq(S \ {Min(S)})

total_matches(toks) == SortedSeq(MarkerIndices(toks))

\* The names the date-element regex looks for (besides \d{1,2}[/-]\d{1,2}).
HeaderNames == {
    <<"m","o","n","d","a","y">>, <<"t","u","e","s","d","a","y">>,
    <<"w","e","d","n","e","s","d","a","y">>, <<"t","h","u","r","s","d","a","y">>,
    <<"f","r","i","d","a","y">>, <<"s","a","t","u","r","d","a","y">>,
    <<"s","u","n","d","a","y">> }
    \cup {months[k].name : k \in 1..12}

\* The string= filter of soup.find_all: the regex is searched, ignoring case.
MatchesHeaderRegex(text) ==
    \/ \E nm \in HeaderNames : InText(nm, LowerText(text))
    \/ \E i \in 1..Len(text) : text[i].k \in {"ymd", "dmy"}

\* date_elements: the texts of the matching elements, in document order.
RECURSIVE date_elements(_)
date_elements(page) ==
    IF page = <<>> THEN <<>>
    ELSE (IF Head(page).elem /\ MatchesHeaderRegex(Head(page).text)
          THEN <<Head(page).text>> ELSE <<>>) \o date_elements(Tail(page))

\* all_text.find(text): the offset of the first occurrence of text.
FindPos(text, toks) ==
    LET at == {i \in 1..(Len(toks) - Len(text) + 1) :
                  \A j \in 1..Len(text) : toks[i + j - 1] = text[j]}
    IN  IF at = {} THEN -1 ELSE Offset(toks, Min(at))

\* date_map[pos] = date
MapPut(date_map, pos, date) ==
    {e \in date_map : e.pos # pos} \cup {[pos |-> pos, date |-> date]}

\* all_text[lo:hi], for hi the start of token i: the tokens that lie in it whole.
TextBefore(toks, i, chars) ==
    LET lo == IF Offset(toks, i) - chars > 0 THEN Offset(toks, i) - chars ELSE 0
        first == {j \in 1..(i - 1) : Offset(toks, j) >= lo}
    IN  IF first = {} THEN <<>> ELSE SubSeq(toks, Min(first), i - 1)

\* Unit conversion to kWh/m2, in units of 10^-7 kWh/m2 (value is in tenths).
value_kwh(value, unit) ==
    IF unit = "kwh" THEN value * 1000000
    ELSE IF unit = "mj" THEN value * 277778
    ELSE value * 1000

\* round(x, n) of a value given in units of 10^-7, as a count of units of `step`
\* such units (step 10: six decimals; step 100: five decimals).
RoundTo(x, step) == (x + (step \div 2)) \div step

\* A Python str is a sequence of one-character strings.
Digits == <<"0", "1", "2", "3", "4", "5", "6", "7", "8", "9">>

IsDigit(c) == \E i \in 1..10 : Digits[i] = c
DigitValue(c) == (CHOOSE i \in 1..10 : Digits[i] = c) - 1

\* f"{n:0{width}d}"
RECURSIVE ZeroPad(_, _)
ZeroPad(n, width) ==
    IF width <= 1 /\ n < 10 THEN <<Digits[n + 1]>>
    ELSE ZeroPad(n \div 10, width - 1) \o <<Digits[(n % 10) + 1]>>

\* int(s), for a string of digits
RECURSIVE IntOfText(_)
IntOfText(s) ==
    IF Len(s) = 1 THEN DigitValue(s[1])
    ELSE IntOfText(SubSeq(s, 1, Len(s) - 1)) * 10 + DigitValue(s[Len(s)])

\* Character order (the part of ASCII the strings use).
CharOrder == <<" ", "-">> \o Digits \o <<":">> \o UpperChars \o LowerChars
Rank(c) == CHOOSE i \in 1..Len(CharOrder) : CharOrder[i] = c

\* a < b on strings
RECURSIVE StrLess(_, _)
StrLess(a, b) ==
    IF b = <<>> THEN FALSE
    ELSE IF a = <<>> THEN TRUE
    ELSE IF Head(a) = Head(b) THEN StrLess(Tail(a), Tail(b))
    ELSE Rank(Head(a)) < Rank(Head(b))

\* strftime('%Y-%m-%d')
date_str(o) ==
    ZeroPad(YearOf(o), 4) \o <<"-">> \o ZeroPad(MonthOf(o), 2) \o <<"-">> \o ZeroPad(DayOf(o), 2)

\* strptime(s, '%Y-%m-%d')
strptime(s) ==
    datetime(IntOfText(SubSeq(s, 1, 4)), IntOfText(SubSeq(s, 6, 7)), IntOfText(SubSeq(s, 9, 10)))

\* strftime('%A')
DayNames == <<"Monday", "Tuesday", "Wednesday", "Thursday", "Friday", "Saturday", "Sunday">>
day_name(o) == <<DayNames[((o + 6) % 7) + 1]>>

\* datetime.now().strftime('%Y-%m-%d %H:%M:%S'), for the clock reading
\* now = [date, sec] (sec: seconds since midnight).
FetchedAtStr(now) ==
    date_str(now.date) \o <<" ">> \o ZeroPad(now.sec \div 3600, 2) \o <<":">>
        \o ZeroPad((now.sec \div 60) % 60, 2) \o <<":">> \o ZeroPad(now.sec % 60, 2)

\* The loop state of extract_forecast, as one record.
ExState == [date_map |-> ex_date_map, temp_seen |-> ex_temp_seen, seen |-> ex_seen,
            last |-> ex_last, daily |-> ex_daily, hourly |-> ex_hourly,
            parsed |-> ex_parsed]

ExInitial(today) ==
    [date_map |-> {}, temp_seen |-> {}, seen |-> {}, last |-> today - 1,
     daily |-> <<>>, hourly |-> <<>>, parsed |-> <<>>]

\* date_map[pos] = date; seen_dates.add(date), for the result r of parse_date.
Scanned(st, pos, r) ==
    [st EXCEPT !.date_map = MapPut(st.date_map, pos, r.date),
               !.temp_seen = r.seen,
               !.seen = st.seen \cup {r.date}]

\* The body of `if pos >= 0`.
ScanAt(st, pos, text, today) ==
    IF pos >= 0
    THEN Scanned(st, pos, ParseDate(text, today, Cardinality(st.date_map), st.temp_seen))
    ELSE st

\* One iteration of `for elem in date_elements`.
ScanHeader(st, text, toks, today) == ScanAt(st, FindPos(text, toks), text, today)

\* The closest date element before match_pos: <<date>>, or <<>> when there is none.
ClosestDate(date_map, match_pos) ==
    LET before == {e \in date_map : e.pos < match_pos}
    IN  IF before = {} THEN <<>>
        ELSE <<(CHOOSE e \in before : \A f \in before : f.pos <= e.pos).date>>

\* The daily record of one marker.
DailyRecord(date, kwh, now) ==
    [Date |-> date_str(date),
     DayName |-> day_name(date),
     SolarRadiation_kWh_m2 |-> RoundTo(kwh, 10),       \* round(value_kwh, 6), in 10^-6
     SolarRadiation_Wh_m2 |-> RoundTo(kwh, 100),       \* round(value_kwh * 1000, 2), in 10^-2
     Source |-> <<"tutiempo.net">>,
     FetchedAt |-> FetchedAtStr(now)]

\* The comparison turned round: the smaller value replaces the stored one.
KeepsNew_Smaller(kwh, stored) == kwh < stored * 10

\* `value_kwh > daily_data[existing_idx]['SolarRadiation_kWh_m2']`: the stored
\* value is in 10^-6, value_kwh in 10^-7.
KeepsNew(kwh, stored) == kwh > stored * 10

\* daily_data after the marker's record is appended or replaces the existing one.

UpdateDaily(daily_data, record, kwh) ==
    LET same == {idx \in 1..Len(daily_data) : daily_data[idx].Date = record.Date}
    IN  IF same # {}
        THEN (IF KeepsNew(kwh, daily_data[Min(same)].SolarRadiation_kWh_m2)
              THEN [daily_data EXCEPT ![Min(same)] = record]
              ELSE daily_data)
        ELSE Append(daily_data, record)

\* An hourly record tagged with the day after the marker's date.
HourlyRecord_NextDay(tok, date, now) ==
    [Date |-> date_str(date + 1),
     Time |-> ZeroPad(tok.h, 2) \o <<":">> \o ZeroPad(tok.mm, 2),
     SolarRadiation_W_m2 |-> tok.value,
     SolarRadiation_Wh_m2 |-> tok.value,
     Source |-> <<"tutiempo.net">>,
     FetchedAt |-> FetchedAtStr(now)]

\* The hourly records of one marker: one per reading in the hourly section.
HourlyRecord(tok, date, now) ==
    [Date |-> date_str(date),
     Time |-> ZeroPad(tok.h, 2) \o <<":">> \o ZeroPad(tok.mm, 2),   \* f"{int(h):02d}:{mm}"
     SolarRadiation_W_m2 |-> tok.value,
     SolarRadiation_Wh_m2 |-> tok.value,
     Source |-> <<"tutiempo.net">>,
     FetchedAt |-> FetchedAtStr(now)]

RECURSIVE HourlyRecords(_, _, _)
HourlyRecords(section, date, now) ==
    IF section = <<>> THEN <<>>
    ELSE (IF Head(section).k = "hourly"
          THEN <<HourlyRecord(Head(section), date, now)>> ELSE <<>>)
         \o HourlyRecords(Tail(section), date, now)

\* max(0, (last_date - today).days + 1)
fallback_index(last, today) == IF (last - today) + 1 > 0 THEN (last - today) + 1 ELSE 0

\* The date of a marker: the closest header's, or a date parsed from the context.
MarkerDate(st, closest, context, today) ==
    IF closest # <<>>
    THEN [date |-> closest[1], seen |-> st.seen]
    ELSE ParseDate(context, today, fallback_index(st.last, today), st.seen)

\* The records of a marker dated r.date, added to the loop state.
Recorded(st, r, kwh, header, hourly_section, now) ==
    [st EXCEPT !.seen = r.seen,
               !.last = IF r.date > st.last THEN r.date ELSE st.last,
               !.daily = UpdateDaily(st.daily, DailyRecord(r.date, kwh, now), kwh),
               !.hourly = st.hourly \o HourlyRecords(hourly_section, r.date, now),
               !.parsed = Append(st.parsed,
                              [date |-> r.date, kwh |-> kwh, header |-> header])]

\* The marker's date is the closest header's when there is one.
Dated(st, toks, m, closest, today, now) ==
    Recorded(st, MarkerDate(st, closest, TextBefore(toks, m, ContextChars), today),
             value_kwh(toks[m].value, toks[m].unit), closest # <<>>,
             TextBefore(toks, m, HourlyChars), now)

\* One iteration of `for i, match in enumerate(total_matches)`, for the marker
\* at token index m.
ProcessMarker(st, toks, m, today, now) ==
    Dated(st, toks, m, ClosestDate(st.date_map, Offset(toks, m)), today, now)

\* daily_data.sort(key=Date): a stable insertion sort.
RECURSIVE InsertByDate(_, _)
InsertByDate(sorted, rec) ==
    IF sorted = <<>> THEN <<rec>>
    ELSE IF StrLess(rec.Date, Head(sorted).Date) THEN <<rec>> \o sorted
    ELSE <<Head(sorted)>> \o InsertByDate(Tail(sorted), rec)

\* extract_forecast without daily_data.sort: the records in marker order.
SortByDate_Skipped(recs) == recs

RECURSIVE SortByDate(_)
SortByDate(recs) ==
    IF recs = <<>> THEN <<>>
    ELSE InsertByDate(SortByDate(SubSeq(recs, 1, Len(recs) - 1)), recs[Len(recs)])

\* The keep-first pass over the sorted records.
RECURSIVE UniqueByDate(_, _)
UniqueByDate(recs, seen) ==
    IF recs = <<>> THEN <<>>
    ELSE IF Head(recs).Date \in seen THEN UniqueByDate(Tail(recs), seen)
    ELSE <<Head(recs)>> \o UniqueByDate(Tail(recs), seen \cup {Head(recs).Date})

\* The tail of extract_forecast: sort, drop duplicates, recompute DayName.
FinishDaily(daily_data) ==
    LET unique_daily_data == UniqueByDate(SortByDate(daily_data), {})
    IN  [i \in 1..Len(unique_daily_data) |->
            [unique_daily_data[i] EXCEPT !.DayName = day_name(strptime(unique_daily_data[i].Date))]]

\* ------------------------------------------------ pages handed to extract
w_Today == <<"T","o","d","a","y">>
w_Tomorrow == <<"T","o","m","o","r","r","o","w">>
w_Monday == <<"M","o","n","d","a","y">>

PageSegments ==
    { Segment(FALSE, <<Word(w_Today), Hourly(9, 0, 10), Hourly(10, 0, 40)>>),
      Segment(FALSE, <<Word(w_Tomorrow)>>),
      Segment(TRUE, <<Word(w_Monday)>>),
      Segment(FALSE, <<Marker(5000, "wh")>>),
      Segment(FALSE, <<Marker(30, "kwh")>>),
      Segment(FALSE, <<Marker(35, "kwh")>>),
      Segment(FALSE, <<Marker(123, "mj")>>),
      Segment(FALSE, <<Pad(2500)>>) }

\* The clock reading the run's records carry as FetchedAt: 10:00:00 today.
ExNow == [date |-> ex_today, sec |-> 10 * 3600]

InitExtract ==
    /\ IdleParse
    /\ IdleStore
    /\ IdlePrognosis
    /\ IdlePipeline
    /\ IdleConcurrent
    /\ IdleConfig
    /\ IdleFetch
    /\ ex_pc = "headers"
    /\ ex_page \in SeqsUpTo(PageSegments, MaxSegments)
    /\ ex_today = datetime(2026, 1, 15)
    /\ ex_i = 1
    /\ ex_date_map = {}
    /\ ex_temp_seen = {}
    /\ ex_seen = {}
    /\ ex_last = ex_today - 1
    /\ ex_daily = <<>>
    /\ ex_hourly = <<>>
    /\ ex_parsed = <<>>

SetExState(st) ==
    /\ ex_date_map' = st.date_map
    /\ ex_temp_seen' = st.temp_seen
    /\ ex_seen' = st.seen
    /\ ex_last' = st.last
    /\ ex_daily' = st.daily
    /\ ex_hourly' = st.hourly
    /\ ex_parsed' = st.parsed

\* for elem in date_elements: one iteration, or the end of the loop.
ExScanHeader ==
    /\ ex_pc = "headers"
    /\ IF ex_i <= Len(date_elements(ex_page))
       THEN /\ SetExState(ScanHeader(ExState, date_elements(ex_page)[ex_i],
                                     AllText(ex_page), ex_today))
            /\ ex_i' = ex_i + 1
            /\ ex_pc' = "headers"
       ELSE /\ SetExState(ExState)
            /\ ex_i' = 1
            /\ ex_pc' = "markers"
    /\ UNCHANGED <<ex_page, ex_today>>
    /\ UNCHANGED <<pvars, svars, gvars, lvars, cvars, fvars, hvars>>

\* for i, match in enumerate(total_matches): one iteration, or the end of the loop.
ExProcessMarker ==
    /\ ex_pc = "markers"
    /\ IF ex_i <= Len(total_matches(AllText(ex_page)))
       THEN /\ SetExState(ProcessMarker(ExState, AllText(ex_page),
                                        total_matches(AllText(ex_page))[ex_i], ex_today, ExNow))
            /\ ex_i' = ex_i + 1
            /\ ex_pc' = "markers"
       ELSE /\ SetExState(ExState)
            /\ ex_i' = ex_i
            /\ ex_pc' = "finish"
    /\ UNCHANGED <<ex_page, ex_today>>
    /\ UNCHANGED <<pvars, svars, gvars, lvars, cvars, fvars, hvars>>

\* The sort / dedupe / DayName tail and the return.
ExFinish ==
    /\ ex_pc = "finish"
    /\ ex_daily' = FinishDaily(ex_daily)
    /\ ex_pc' = "done"
    /\ UNCHANGED <<ex_page, ex_today, ex_i, ex_date_map, ex_temp_seen, ex_seen,
                   ex_last, ex_hourly, ex_parsed>>
    /\ UNCHANGED <<pvars, svars, gvars, lvars, cvars, fvars, hvars>>

NextExtract == ExScanHeader \/ ExProcessMarker \/ ExFinish

SpecExtract == InitExtract /\ [][NextExtract]_vars

\* ------------------------------------------------------ claims: parse_date
\* The text is one month name (full or abbreviated, any case) followed by a
\* day number of one or two digits, and nothing else.
IsMonthDayText(text) ==
    /\ Len(text) = 2
    /\ text[1].k = "word"
    /\ \E k \in 1..Len(months) : LowerText(text)[1].cs = months[k].name
    /\ text[2].k = "num"
    /\ Len(text[2].ds) \in {1, 2}

MonthOfText(text) ==
    months[CHOOSE k \in 1..Len(months) : LowerText(text)[1].cs = months[k].name].num

DayOfText(text) == ToInt(text[2].ds)

\* The month/day is strictly before the reference date's month/day.
BeforeReference(m, d, today) ==
    m < MonthOf(today) \/ (m = MonthOf(today) /\ d < DayOf(today))

RolloverYear(text, today) ==
    IF BeforeReference(MonthOfText(text), DayOfText(text), today)
    THEN YearOf(today) + 1
    ELSE YearOf(today)

\* C6 (as claimed): "today" with the reference date unclaimed gives the reference
\* date; otherwise (no "today", or the reference date is claimed) "tomorrow" with
\* reference date + 1 unclaimed gives reference date + 1.
C6_RelativeFirstSuccessWins ==
    pd_pc = "ret" =>
        LET hasToday == InText(w_today, LowerText(pd_text))
            hasTomorrow == InText(w_tomorrow, LowerText(pd_text))
        IN  /\ (hasToday /\ pd_today \notin pd_seen) => pd_ret = <<pd_today>>
            /\ ((~hasToday \/ pd_today \in pd_seen) /\ hasTomorrow
                    /\ (pd_today + 1) \notin pd_seen)
                => pd_ret = <<pd_today + 1>>

\* C7: a month name plus day number that forms a valid, unclaimed date resolves
\* to that month/day in the reference year when it is on or after the reference
\* month/day, and in the following year exactly when it is strictly before it.
C7_MonthRollover ==
    (pd_pc = "ret" /\ IsMonthDayText(pd_text)) =>
        LET m == MonthOfText(pd_text)
            d == DayOfText(pd_text)
            y == RolloverYear(pd_text, pd_today)
        IN  (ValidYmd(y, m, d) /\ datetime(y, m, d) \notin pd_seen)
                => pd_ret = <<datetime(y, m, d)>>

\* C7 witness: "January 5" seen from a December reference date lands in the next year.
C7_Witness ==
    /\ pd_pc = "ret"
    /\ IsMonthDayText(pd_text)
    /\ BeforeReference(MonthOfText(pd_text), DayOfText(pd_text), pd_today)
    /\ pd_ret # <<>>
    /\ YearOf(pd_ret[1]) = YearOf(pd_today) + 1
    /\ MonthOf(pd_ret[1]) = MonthOfText(pd_text)
    /\ DayOf(pd_ret[1]) = DayOfText(pd_text)

\* C19: parse_date never returns a date that was in seen_dates when it was
\* called, and when it returns seen_dates is its value at the call plus exactly
\* the returned date, whichever branch resolved the date.
C19_ReturnsUnusedAddsIt ==
    pd_pc = "ret" =>
        /\ pd_ret # <<>>
        /\ pd_ret[1] \notin pd_seen
        /\ pd_seen_out = pd_seen \cup {pd_ret[1]}
        /\ pd_seen_out \ pd_seen = {pd_ret[1]}

\* C19 witness: a text naming "today" is parsed while the reference date and the
\* day after it are already used, so a later branch resolves the date.
C19_Witness ==
    /\ pd_pc = "ret"
    /\ InText(w_today, LowerText(pd_text))
    /\ {pd_today, pd_today + 1} \subseteq pd_seen
    /\ pd_ret # <<>>
    /\ pd_ret[1] > pd_today + 1
    /\ pd_seen_out = pd_seen \cup {pd_ret[1]}

\* No branch of parse_date before the fallback returns for the call.
NoStrategyReturns ==
    /\ RelativeCandidate(LowerText(pd_text), pd_today, pd_seen) = <<>>
    /\ MonthLoop(1, LowerText(pd_text), pd_today, pd_seen) = <<>>
    /\ PatternLoop(1, pd_text, pd_today, pd_seen) = <<>>

\* The smallest k >= index with today + k not in seen_dates.
SmallestFreeOffset ==
    CHOOSE k \in pd_index..(pd_index + Cardinality(pd_seen)) :
        /\ (pd_today + k) \notin pd_seen
        /\ \A j \in pd_index..(k - 1) : (pd_today + j) \in pd_seen

\* C22: when no earlier strategy returns, parse_date returns the reference date
\* plus k days, k the smallest integer >= index whose date is not yet used.
C22_FallbackSmallestFree ==
    (pd_pc = "ret" /\ NoStrategyReturns) => pd_ret = <<pd_today + SmallestFreeOffset>>

\* C22 witness: the fallback is reached with the date at offset index already
\* used, so the offset is incremented.
C22_Witness ==
    /\ pd_pc = "ret"
    /\ NoStrategyReturns
    /\ (pd_today + pd_index) \in pd_seen
    /\ pd_ret # <<>>
    /\ pd_ret[1] > pd_today + pd_index

\* The numeric dates written in the text (valid ones), as dates.
NumericDatesIn(text) ==
    {datetime(text[i].y, text[i].m, text[i].d) :
        i \in {j \in 1..Len(text) : /\ text[j].k \in {"ymd", "dmy"}
                                     /\ ValidYmd(text[j].y, text[j].m, text[j].d)}}

\* The call reaches the numeric date patterns: no earlier branch returns.
ReachesPatterns ==
    /\ RelativeCandidate(LowerText(pd_text), pd_today, pd_seen) = <<>>
    /\ MonthLoop(1, LowerText(pd_text), pd_today, pd_seen) = <<>>

\* C23: the numeric-pattern step returns a date only when it is on or after the
\* reference date and not yet used; a numeric date before the reference date is
\* never returned, and the call then returns a later pattern's date or the
\* fallback date.
C23_NumericOnlyFutureUnclaimed ==
    (pd_pc = "ret" /\ ReachesPatterns) =>
        /\ \A d \in NumericDatesIn(pd_text) :
              (d < pd_today \/ d \in pd_seen) => pd_ret # <<d>>
        /\ \/ pd_ret = <<pd_today + SmallestFreeOffset>>
           \/ \E d \in NumericDatesIn(pd_text) :
                 d >= pd_today /\ d \notin pd_seen /\ pd_ret = <<d>>

\* C23 witness: the text holds a numeric date before the reference date and a
\* later pattern's date on or after it, which is the one returned.
C23_Witness ==
    /\ pd_pc = "ret"
    /\ ReachesPatterns
    /\ \E d \in NumericDatesIn(pd_text) : d < pd_today
    /\ pd_ret # <<>>
    /\ pd_ret[1] \in NumericDatesIn(pd_text)
    /\ pd_ret[1] >= pd_today

\* The text is a month name and a day number that form no calendar date.
InvalidMonthDay ==
    /\ IsMonthDayText(pd_text)
    /\ ~ValidYmd(RolloverYear(pd_text, pd_today), MonthOfText(pd_text), DayOfText(pd_text))

\* C24: a month name with a day number that forms no calendar date does not make
\* parse_date fail: the candidate is dropped and the call returns the date of a
\* following strategy (here the fallback), which is not yet used.
C24_InvalidMonthDayFallsThrough ==
    (pd_pc = "ret" /\ InvalidMonthDay) =>
        /\ pd_ret = <<pd_today + SmallestFreeOffset>>
        /\ pd_ret[1] \notin pd_seen

\* C24 witness: "Feb 30" is parsed and the call returns a date.
C24_Witness ==
    /\ pd_pc = "ret"
    /\ InvalidMonthDay
    /\ MonthOfText(pd_text) = 2
    /\ DayOfText(pd_text) = 30
    /\ pd_ret # <<>>
    /\ pd_ret[1] >= pd_today

\* C28: every date parse_date returns (the index is never negative) is on or
\* after the reference date, whichever branch resolved it.
C28_NeverBeforeReference ==
    pd_pc = "ret" => (pd_ret # <<>> /\ pd_ret[1] >= pd_today)

\* C28 witness: a month and day before the reference date's, or a numeric date
\* before the reference date, was parsed and the call returned a later date.
C28_Witness ==
    /\ pd_pc = "ret"
    /\ \/ IsMonthDayText(pd_text)
             /\ BeforeReference(MonthOfText(pd_text), DayOfText(pd_text), pd_today)
       \/ \E d \in NumericDatesIn(pd_text) : d < pd_today
    /\ pd_seen # {}
    /\ pd_ret # <<>>
    /\ pd_ret[1] > pd_today

\* ------------------------------------------------ claims: extract_forecast
\* C1 (as claimed): the dates assigned to the markers of one run are pairwise
\* distinct.
C1_MarkerDatesDistinct ==
    \A a, b \in 1..Len(ex_parsed) :
        a # b => ex_parsed[a].date # ex_parsed[b].date

\* C1 (amended): two markers of one run share a date only when both took it from
\* a preceding date element; a date that parse_date resolved from a marker's
\* context belongs to no other marker of the run.
C1_ParsedDatesDistinct ==
    \A a, b \in 1..Len(ex_parsed) :
        (a # b /\ ex_parsed[a].date = ex_parsed[b].date)
            => (ex_parsed[a].header /\ ex_parsed[b].header)

\* C1 witness: a finished run with two markers resolved from their context and
\* one resolved from a date element.
C1_Witness ==
    /\ ex_pc = "done"
    /\ \E a, b, c \in 1..Len(ex_parsed) :
        /\ a < b
        /\ ~ex_parsed[a].header
        /\ ~ex_parsed[b].header
        /\ ex_parsed[c].header

\* C20: the daily records extract_forecast returns are strictly ascending by
\* calendar date: each record's date is earlier than the next one's, so no date
\* occurs twice.
C20_DailyStrictlyAscending ==
    ex_pc = "done" =>
        \A i, j \in 1..Len(ex_daily) :
            i < j => strptime(ex_daily[i].Date) < strptime(ex_daily[j].Date)

\* C20 witness: a finished run whose markers were met out of date order and
\* twice on one date, returning at least two records.
C20_Witness ==
    /\ ex_pc = "done"
    /\ Len(ex_daily) >= 2
    /\ \E a, b, c \in 1..Len(ex_parsed) :
        /\ a < b
        /\ ex_parsed[a].date > ex_parsed[b].date
        /\ c # b
        /\ ex_parsed[c].date = ex_parsed[b].date

\* The token index at which each date element starts, in document order (n
\* tokens precede the page).
RECURSIVE HeaderStarts(_, _)
HeaderStarts(page, n) ==
    IF page = <<>> THEN <<>>
    ELSE (IF Head(page).elem /\ MatchesHeaderRegex(Head(page).text)
          THEN <<n + 1>> ELSE <<>>)
         \o HeaderStarts(Tail(page), n + Len(Head(page).text))

\* The date parse_date resolved for each date element, in document order.
RECURSIVE ResolvedHeaderDates(_, _, _, _)
ResolvedHeaderDates(st, elems, toks, today) ==
    IF elems = <<>> THEN <<>>
    ELSE <<ParsedDate(Head(elems), today, Cardinality(st.date_map), st.temp_seen)>>
         \o ResolvedHeaderDates(ScanHeader(st, Head(elems), toks, today),
                                Tail(elems), toks, today)

\* The date elements that stand before marker a of the page.
HeadersBefore(a) ==
    {k \in 1..Len(HeaderStarts(ex_page, 0)) :
        HeaderStarts(ex_page, 0)[k] < total_matches(AllText(ex_page))[a]}

\* C21: a marker with a date element before it in the page text gets the
\* resolved date of the closest preceding date element; a marker with none gets
\* a date inferred from its context.
C21_HeaderPriority ==
    ex_pc = "done" =>
        \A a \in 1..Len(ex_parsed) :
            IF HeadersBefore(a) # {}
            THEN ex_parsed[a].date =
                    ResolvedHeaderDates(ExInitial(ex_today), date_elements(ex_page),
                                        AllText(ex_page), ex_today)[Max(HeadersBefore(a))]
            ELSE ~ex_parsed[a].header

\* C28, for extract_forecast: every daily and hourly record of a run is dated
\* today or later.
C28_RecordsNotBeforeToday ==
    /\ \A i \in 1..Len(ex_daily) : ~StrLess(ex_daily[i].Date, date_str(ex_today))
    /\ \A i \in 1..Len(ex_hourly) : ~StrLess(ex_hourly[i].Date, date_str(ex_today))
    /\ \A a \in 1..Len(ex_parsed) : ex_parsed[a].date >= ex_today

\* C29: every hourly record extract_forecast returns has a daily record of the
\* same result with the same Date.
C29_HourlyHasDaily ==
    ex_pc = "done" =>
        \A h \in 1..Len(ex_hourly) :
            \E d \in 1..Len(ex_daily) : ex_daily[d].Date = ex_hourly[h].Date

\* C29 witness: a finished run in which two markers were resolved to one date,
\* their daily records were merged into one, and hourly records carry that date.
C29_Witness ==
    /\ ex_pc = "done"
    /\ Len(ex_daily) < Len(ex_parsed)
    /\ \E a, b \in 1..Len(ex_parsed) :
          /\ a # b
          /\ ex_parsed[a].date = ex_parsed[b].date
          /\ \E h \in 1..Len(ex_hourly) : ex_hourly[h].Date = date_str(ex_parsed[a].date)

\* The markers of the run that were resolved to date d, and the largest
\* normalized value among them (in 10^-7 kWh/m2).
MarkersOn(d) == {a \in 1..Len(ex_parsed) : ex_parsed[a].date = d}
MaxKwhOn(d) == Max({ex_parsed[a].kwh : a \in MarkersOn(d)})
RecordsOn(d) == {i \in 1..Len(ex_daily) : ex_daily[i].Date = date_str(d)}

IsTwoDayPage(page) ==
    /\ Len(page) = 4
    /\ page[1] = Segment(FALSE, <<Word(w_Today), Hourly(9, 0, 10), Hourly(10, 0, 40)>>)
    /\ Len(page[2].text) = 1 /\ page[2].text[1].k = "marker"
    /\ page[3] = Segment(FALSE, <<Word(w_Tomorrow)>>)
    /\ Len(page[4].text) = 1 /\ page[4].text[1].k = "marker"

\* C9 (as claimed): on that page extract_forecast returns exactly two
\* HourlyRecords, both dated the first marker's date, none the second marker's.
C9_HourlyOnFirstDateOnly ==
    (ex_pc = "done" /\ IsTwoDayPage(ex_page)) =>
        /\ Len(ex_hourly) = 2
        /\ \A i \in 1..Len(ex_hourly) :
            /\ ex_hourly[i].Date = date_str(ex_parsed[1].date)
            /\ ex_hourly[i].Date # date_str(ex_parsed[2].date)


\* ------------------------------------------------- CSV store (storage.py)
\* A Python value held by a record or by a DataFrame cell is a str, an int or
\* a float.  A float is n / 10^k with the fewest decimals, at least one, which
\* is how repr() and to_csv write it.
PyStr(s) == [t |-> "str", s |-> s, n |-> 0, k |-> 0]
PyInt(n) == [t |-> "int", s |-> <<>>, n |-> n, k |-> 0]

\* NaN: what read_csv gives for an empty or missing field.
NaN == [t |-> "nan", s |-> <<>>, n |-> 0, k |-> 0]

RECURSIVE Pow10(_)
Pow10(k) == IF k = 0 THEN 1 ELSE 10 * Pow10(k - 1)

RECURSIVE PyFloat(_, _)
PyFloat(n, k) ==
    IF k > 1 /\ n % 10 = 0 THEN PyFloat(n \div 10, k - 1)
    ELSE [t |-> "float", s |-> <<>>, n |-> n, k |-> k]

\* str(value): the text to_csv writes for a cell
CellText(c) ==
    CASE c.t = "str" -> c.s
      [] c.t = "nan" -> <<>>
      [] c.t = "int" -> ZeroPad(c.n, 1)
      [] c.t = "float" ->
            ZeroPad(c.n \div Pow10(c.k), 1) \o <<".">> \o ZeroPad(c.n % Pow10(c.k), c.k)

\* The texts read_csv takes for an integer and for a decimal number.
IsIntText(s) == Len(s) >= 1 /\ \A i \in 1..Len(s) : IsDigit(s[i])

IsFloatText(s) ==
    \E p \in 2..(Len(s) - 1) :
        /\ s[p] = "."
        /\ \A i \in (1..Len(s)) \ {p} : IsDigit(s[i])

ParseFloat(s) ==
    LET p == CHOOSE q \in 1..Len(s) : s[q] = "."
    IN  PyFloat(IntOfText(SubSeq(s, 1, p - 1) \o SubSeq(s, p + 1, Len(s))), Len(s) - p)

\* A file: absent, unreadable (ok = FALSE), or a header and rows of cell texts.
\* A row may hold fewer texts than the header (a line cut short).
NoFile == [exists |-> FALSE, ok |-> FALSE, cols |-> <<>>, rows |-> <<>>]

\* The j-th field of the i-th line: empty when the line is too short.
FieldAt(file, i, j) == IF j <= Len(file.rows[i]) THEN file.rows[i][j] ELSE <<>>

ColumnSet(cols) == {cols[j] : j \in 1..Len(cols)}

\* The dtype pandas gives a column holding these values: int64 when all are
\* ints, float64 when all are numbers, object otherwise.
ColDtype(rows, c) ==
    IF \A i \in 1..Len(rows) : rows[i][c].t = "int" THEN "int64"
    ELSE IF \A i \in 1..Len(rows) : rows[i][c].t # "str" THEN "float64"
    ELSE "object"

AsDtype(cell, dtype) ==
    IF dtype = "float64" /\ cell.t = "int" THEN PyFloat(cell.n * 10, 1) ELSE cell

Coerce(rows, cols) ==
    [i \in 1..Len(rows) |->
        [c \in ColumnSet(cols) |-> AsDtype(rows[i][c], ColDtype(rows, c))]]

\* pd.DataFrame(records): the records' keys, in insertion order, are the columns.
DataFrame(records, columns) == [cols |-> columns, rows |-> Coerce(records, columns)]

\* pd.DataFrame()
EmptyFrame == [cols |-> <<>>, rows |-> <<>>]

\* df.to_csv(filepath, index=False)
to_csv(df) ==
    [exists |-> TRUE, ok |-> TRUE, cols |-> df.cols,
     rows |-> [i \in 1..Len(df.rows) |->
                  [j \in 1..Len(df.cols) |-> CellText(df.rows[i][df.cols[j]])]]]

\* pd.read_csv(filepath) raises on an unreadable or empty file.
ReadRaises(file) == ~file.ok \/ file.cols = <<>>

\* pd.read_csv(filepath): each column's type is inferred from its texts; an
\* empty field is NaN, which an integer column cannot hold.
TextDtype(file, j) ==
    IF \A i \in 1..Len(file.rows) : IsIntText(FieldAt(file, i, j)) THEN "int64"
    ELSE IF \A i \in 1..Len(file.rows) :
                \/ FieldAt(file, i, j) = <<>>
                \/ IsIntText(FieldAt(file, i, j))
                \/ IsFloatText(FieldAt(file, i, j)) THEN "float64"
    ELSE "object"

ParseText(s, dtype) ==
    CASE s = <<>> -> NaN
      [] dtype = "int64" -> PyInt(IntOfText(s))
      [] dtype = "float64" ->
            IF IsIntText(s) THEN PyFloat(IntOfText(s) * 10, 1) ELSE ParseFloat(s)
      [] dtype = "object" -> PyStr(s)

ColumnIndex(cols, c) == CHOOSE j \in 1..Len(cols) : cols[j] = c

read_csv(file) ==
    [cols |-> file.cols,
     rows |-> [i \in 1..Len(file.rows) |->
                  [c \in ColumnSet(file.cols) |->
                      ParseText(FieldAt(file, i, ColumnIndex(file.cols, c)),
                                TextDtype(file, ColumnIndex(file.cols, c)))]]]

\* A variant of concat that forgets the first frame.
concat_NewOnly(a, b) == b

\* pd.concat([a, b], ignore_index=True), for frames with the same columns
\* (a history file is written from records of the same shape) or an empty a.
concat(a, b) ==
    IF a.cols = <<>> THEN b
    ELSE [cols |-> a.cols, rows |-> Coerce(a.rows \o b.rows, a.cols)]

\* Equality of two cells as drop_duplicates hashes them: numbers by value,
\* NaN equal to NaN only, everything else by type and value (the int 7 is not
\* the str "7").
CellEq(a, b) ==
    IF a.t = "nan" \/ b.t = "nan" THEN a.t = b.t
    ELSE IF a.t # "str" /\ b.t # "str" THEN a.n * Pow10(b.k) = b.n * Pow10(a.k)
    ELSE a = b

KeyEq(r1, r2, subset) == \A i \in 1..Len(subset) : CellEq(r1[subset[i]], r2[subset[i]])

RECURSIVE KeepLast(_, _, _)
KeepLast(rows, subset, i) ==
    IF i > Len(rows) THEN <<>>
    ELSE (IF \E j \in (i + 1)..Len(rows) : KeyEq(rows[i], rows[j], subset)
          THEN <<>> ELSE <<rows[i]>>) \o KeepLast(rows, subset, i + 1)

\* df.drop_duplicates(subset=..., keep="last")
drop_duplicates(df, subset) == [cols |-> df.cols, rows |-> KeepLast(df.rows, subset, 1)]

\* Order of two cells in a sort on several columns: numbers by value, strings
\* by character order, in a column of mixed types numbers before strings, and
\* NaN after everything (na_position='last').
CellLess(a, b) ==
    IF a.t = "nan" \/ b.t = "nan" THEN a.t # "nan"
    ELSE IF a.t # "str" /\ b.t # "str" THEN a.n * Pow10(b.k) < b.n * Pow10(a.k)
    ELSE IF a.t # "str" THEN b.t = "str"
    ELSE IF b.t # "str" THEN FALSE
    ELSE StrLess(a.s, b.s)

RECURSIVE RowLess(_, _, _)
RowLess(r1, r2, by) ==
    IF by = <<>> THEN FALSE
    ELSE IF CellLess(r1[Head(by)], r2[Head(by)]) THEN TRUE
    ELSE IF CellLess(r2[Head(by)], r1[Head(by)]) THEN FALSE
    ELSE RowLess(r1, r2, Tail(by))

InsertRow(sorted, r, by) ==
    LET after == {i \in 1..Len(sorted) : RowLess(r, sorted[i], by)}
        p == IF after = {} THEN Len(sorted) + 1 ELSE Min(after)
    IN  SubSeq(sorted, 1, p - 1) \o <<r>> \o SubSeq(sorted, p, Len(sorted))

RECURSIVE SortRows(_, _)
SortRows(rows, by) ==
    IF rows = <<>> THEN <<>>
    ELSE InsertRow(SortRows(SubSeq(rows, 1, Len(rows) - 1), by), rows[Len(rows)], by)

\* df.sort_values(by).reset_index(drop=True), by naming two or more columns
\* as in every call run_pipeline makes: a stable sort.
sort_values(df, by) == [cols |-> df.cols, rows |-> SortRows(df.rows, by)]

\* A variant of write_snapshot_csv without the guard on empty records.
write_snapshot_csv_Unguarded(records, columns, file) ==
    [file |-> to_csv(DataFrame(records, columns)), ret |-> TRUE]

\* write_snapshot_csv(records, filepath): the file afterwards, the return value
write_snapshot_csv(records, columns, file) ==
    IF records = <<>> THEN [file |-> file, ret |-> FALSE]
    ELSE [file |-> to_csv(DataFrame(records, columns)), ret |-> TRUE]

\* The read half of upsert_history_csv: filepath.exists() and, for a file that
\* exists, pd.read_csv(filepath) or an empty frame when that raises.
ReadExisting(file) ==
    [exists |-> file.exists,
     df_existing |-> IF ReadRaises(file) THEN EmptyFrame ELSE read_csv(file)]

\* if sort_by: df.sort_values(list(sort_by)).reset_index(drop=True)
Sorted(df, sort_by) == IF sort_by # <<>> THEN sort_values(df, sort_by) ELSE df

\* The write half of upsert_history_csv: concat, drop_duplicates, sort and
\* to_csv of what was read and the new frame.
WriteMerged(df_new, existing, dedupe_subset, sort_by) ==
    to_csv(Sorted(drop_duplicates(IF existing.exists
                                  THEN concat(existing.df_existing, df_new)
                                  ELSE df_new,
                                  dedupe_subset),
                  sort_by))

\* upsert_history_csv(records, filepath, dedupe_subset=..., sort_by=...):
\* the file afterwards, the return value
upsert_history_csv(records, columns, file, dedupe_subset, sort_by) ==
    IF records = <<>> THEN [file |-> file, ret |-> FALSE]
    ELSE [file |-> WriteMerged(DataFrame(records, columns), ReadExisting(file),
                               dedupe_subset, sort_by),
          ret |-> TRUE]

\* ---- calls of the store on one history file and one snapshot file
\* The shape of the records: the identity columns and the volatile FetchedAt,
\* deduplicated and sorted as run_pipeline does for the prognosis history.
StoreColumns == <<"Date", "ConfigHash", "FetchedAt">>
StoreSubset == <<"Date", "ConfigHash">>
StoreSortBy == <<"Date", "FetchedAt", "ConfigHash">>

StoreDates == {datetime(2026, 1, 15), datetime(2026, 1, 16)}

\* Values of _config_hash: strings of hexadecimal digits (shortened to two).
ConfigHashes == {<<"a", "1">>, <<"0", "7">>}

StoreKeys == [date : StoreDates, hash : ConfigHashes]

\* The clock reading of a call: one second later with every call.
StoreNow == [date |-> datetime(2026, 1, 15), sec |-> 10 * 3600 + st_calls]

StoreRecord(key, now) ==
    [Date |-> PyStr(date_str(key.date)),
     ConfigHash |-> PyStr(key.hash),
     FetchedAt |-> PyStr(FetchedAtStr(now))]

StoreRecords(keys, now) == [i \in 1..Len(keys) |-> StoreRecord(keys[i], now)]

NoCall == [name |-> "none", records |-> <<>>, ret |-> FALSE]

InitStore ==
    /\ st_hist = NoFile
    /\ st_snap = NoFile
    /\ st_prev_hist = NoFile
    /\ st_prev_snap = NoFile
    /\ st_op = NoCall
    /\ st_prev_op = NoCall
    /\ st_calls = 0
    /\ IdleParse
    /\ IdleExtract
    /\ IdlePrognosis
    /\ IdlePipeline
    /\ IdleConcurrent
    /\ IdleConfig
    /\ IdleFetch

Called(name, records, ret) ==
    /\ st_op' = [name |-> name, records |-> records, ret |-> ret]
    /\ st_prev_op' = st_op
    /\ st_prev_hist' = st_hist
    /\ st_prev_snap' = st_snap
    /\ st_calls' = st_calls + 1

CallUpsertHistory ==
    /\ st_calls < MaxCalls
    /\ \E keys \in SeqsUpTo(StoreKeys, MaxRecords) :
          LET records == StoreRecords(keys, StoreNow)
              r == upsert_history_csv(records, StoreColumns, st_hist, StoreSubset, StoreSortBy)
          IN  /\ st_hist' = r.file
              /\ Called("upsert_history_csv", records, r.ret)
    /\ UNCHANGED st_snap
    /\ UNCHANGED <<pvars, evars, gvars, lvars, cvars, fvars, hvars>>

CallWriteSnapshot ==
    /\ st_calls < MaxCalls
    /\ \E keys \in SeqsUpTo(StoreKeys, MaxRecords) :
          LET records == StoreRecords(keys, StoreNow)
              r == write_snapshot_csv(records, StoreColumns, st_snap)
          IN  /\ st_snap' = r.file
              /\ Called("write_snapshot_csv", records, r.ret)
    /\ UNCHANGED st_hist
    /\ UNCHANGED <<pvars, evars, gvars, lvars, cvars, fvars, hvars>>

\* The environment corrupts the history file.
DamageHistory ==
    /\ st_calls < MaxCalls
    /\ st_hist.exists
    /\ st_hist.ok
    /\ st_hist' = [exists |-> TRUE, ok |-> FALSE, cols |-> <<>>, rows |-> <<>>]
    /\ Called("damage", <<>>, FALSE)
    /\ UNCHANGED st_snap
    /\ UNCHANGED <<pvars, evars, gvars, lvars, cvars, fvars, hvars>>

\* The last line of a file cut short after its first `keep` fields.
CutLastLine(file, keep) ==
    [file EXCEPT !.rows[Len(file.rows)] = SubSeq(@, 1, keep)]

\* The environment cuts the history file short (an interrupted write, a
\* partial copy): the last line loses its trailing fields.
TruncateHistory ==
    /\ st_calls < MaxCalls
    /\ st_hist.exists
    /\ st_hist.ok
    /\ st_hist.rows # <<>>
    /\ \E keep \in 1..(Len(st_hist.rows[Len(st_hist.rows)]) - 1) :
          st_hist' = CutLastLine(st_hist, keep)
    /\ Called("truncate", <<>>, FALSE)
    /\ UNCHANGED st_snap
    /\ UNCHANGED <<pvars, evars, gvars, lvars, cvars, fvars, hvars>>

NextStore == CallUpsertHistory \/ CallWriteSnapshot \/ DamageHistory \/ TruncateHistory

SpecStore == InitStore /\ [][NextStore]_vars

\* ------------------------------------------------------ claims: the store
\* Two record lists agree on every identity column, record by record.
AgreeOnIdentity(R1, R2) ==
    /\ Len(R1) = Len(R2)
    /\ \A i \in 1..Len(R1) : \A j \in 1..Len(StoreSubset) :
          R1[i][StoreSubset[j]] = R2[i][StoreSubset[j]]

\* C2: history idempotence.  When upsert_history_csv has been applied with
\* records R and is applied again with records that agree with R on every
\* identity column (only FetchedAt differs), the second call leaves the number
\* of rows of the history unchanged.
C2_HistoryIdempotent ==
    (/\ st_op.name = "upsert_history_csv"
     /\ st_prev_op.name = "upsert_history_csv"
     /\ AgreeOnIdentity(st_prev_op.records, st_op.records))
        => Len(st_hist.rows) = Len(st_prev_hist.rows)

\* C3: write_snapshot_csv with an empty record list is a no-op: the target
\* holds after the call exactly what it held before it (its rows, or no file).
C3_EmptySnapshotNoOp ==
    (st_op.name = "write_snapshot_csv" /\ st_op.records = <<>>)
        => st_snap = st_prev_snap

\* C3 witness: an empty record list was written to a snapshot that held rows.
C3_Witness ==
    /\ st_op.name = "write_snapshot_csv"
    /\ st_op.records = <<>>
    /\ st_prev_snap.exists
    /\ Len(st_prev_snap.rows) > 0

RowsOf(file) == {file.rows[i] : i \in 1..Len(file.rows)}

\* The identity key of a row of a file, as texts.
KeyTextsOf(file) ==
    {[j \in 1..Len(StoreSubset) |-> FieldAt(file, i, ColumnIndex(file.cols, StoreSubset[j]))] :
        i \in 1..Len(file.rows)}

\* Two texts that read_csv reads as the same value: the same text, or two
\* numerals of the same number ("07" and "7").
IsNumberText(s) == IsIntText(s) \/ IsFloatText(s)

SameValueText(a, b) ==
    \/ a = b
    \/ /\ IsNumberText(a)
       /\ IsNumberText(b)
       /\ CellEq(ParseText(a, "float64"), ParseText(b, "float64"))

SameKeyTexts(k1, k2) == \A j \in 1..Len(StoreSubset) : SameValueText(k1[j], k2[j])

C30_KeysOnlyGrow ==
    (/\ st_op.name = "upsert_history_csv"
     /\ st_prev_hist.exists
     /\ ~ReadRaises(st_prev_hist)
     /\ \A i \in 1..Len(st_prev_hist.rows) : Len(st_prev_hist.rows[i]) = Len(st_prev_hist.cols))
        => KeyTextsOf(st_prev_hist) \subseteq KeyTextsOf(st_hist)

\* The file exists and is corrupted or unreadable: it cannot be read, or one
\* of its lines has been cut short.
Corrupted(file) ==
    /\ file.exists
    /\ \/ ~file.ok
       \/ \E i \in 1..Len(file.rows) : Len(file.rows[i]) < Len(file.cols)

\* What the target holds when exactly the deduplicated, sorted new records
\* are written to it.
FreshHistory(records) ==
    to_csv(Sorted(drop_duplicates(DataFrame(records, StoreColumns), StoreSubset), StoreSortBy))

\* C16: when the existing history file is corrupted or unreadable,
\* upsert_history_csv with non-empty records treats the existing history as
\* empty and leaves the target holding exactly the deduplicated, sorted new
\* records.
C16_CorruptedStartsFresh ==
    (/\ st_op.name = "upsert_history_csv"
     /\ st_op.records # <<>>
     /\ Corrupted(st_prev_hist))
        => st_op.ret /\ st_hist = FreshHistory(st_op.records)

\* The line to_csv writes for a record.
LineOf(record) == [j \in 1..Len(StoreColumns) |-> CellText(record[StoreColumns[j]])]

\* No two rows of the file, as read_csv reads them, agree on all identity
\* columns.
KeysUnique(file) ==
    \A i, j \in 1..Len(file.rows) :
        i # j => ~KeyEq(read_csv(file).rows[i], read_csv(file).rows[j], StoreSubset)

\* The i-th record is the last of the records with its identity key.
LastWithKey(records, i) ==
    \A j \in (i + 1)..Len(records) : ~KeyEq(records[i], records[j], StoreSubset)

\* C18: after any upsert_history_csv call with non-empty records, no two
\* rows of the target agree on all identity columns, and for every identity
\* key of the new records the retained row is the last new record with that
\* key.
C18_KeysUniqueLatestKept ==
    (st_op.name = "upsert_history_csv" /\ st_op.records # <<>>)
        => /\ KeysUnique(st_hist)
           /\ \A i \in 1..Len(st_op.records) :
                 LastWithKey(st_op.records, i) => LineOf(st_op.records[i]) \in RowsOf(st_hist)

\* ----------------------------- overlapping calls of upsert_history_csv
\* Two runs of the pipeline overlap (two background threads of the GUI, or
\* the GUI and a scheduled run): each calls upsert_history_csv on the same
\* history file.  A call is two steps, the read of the file and the write
\* of the merged frame; nothing orders the steps of different calls.
Callers == {1, 2}

\* The clock reading of caller p.
CallerNow(p) == [date |-> datetime(2026, 1, 15), sec |-> 10 * 3600 + p]

NothingRead == [exists |-> FALSE, df_existing |-> EmptyFrame]

InitConcurrent ==
    /\ cc_hist = NoFile
    /\ cc_pc = [p \in Callers |-> "start"]
    /\ \E keys \in [Callers -> SeqsUpTo(StoreKeys, MaxRecords)] :
          cc_records = [p \in Callers |-> StoreRecords(keys[p], CallerNow(p))]
    /\ cc_read = [p \in Callers |-> NothingRead]
    /\ IdleParse
    /\ IdleExtract
    /\ IdleStore
    /\ IdlePrognosis
    /\ IdlePipeline
    /\ IdleConfig
    /\ IdleFetch

\* `if not records: return False`, else the read of the existing file.
UpsertRead(p) ==
    /\ cc_pc[p] = "start"
    /\ IF cc_records[p] = <<>>
       THEN /\ cc_pc' = [cc_pc EXCEPT ![p] = "done"]
            /\ UNCHANGED cc_read
       ELSE /\ cc_pc' = [cc_pc EXCEPT ![p] = "read"]
            /\ cc_read' = [cc_read EXCEPT ![p] = ReadExisting(cc_hist)]
    /\ UNCHANGED <<cc_hist, cc_records>>
    /\ UNCHANGED <<pvars, evars, svars, gvars, lvars, fvars, hvars>>

\* concat, drop_duplicates, sort_values and to_csv.
UpsertWrite(p) ==
    /\ cc_pc[p] = "read"
    /\ cc_hist' = WriteMerged(DataFrame(cc_records[p], StoreColumns), cc_read[p],
                              StoreSubset, StoreSortBy)
    /\ cc_pc' = [cc_pc EXCEPT ![p] = "done"]
    /\ UNCHANGED <<cc_records, cc_read>>
    /\ UNCHANGED <<pvars, evars, svars, gvars, lvars, fvars, hvars>>

NextConcurrent == \E p \in Callers : UpsertRead(p) \/ UpsertWrite(p)

SpecConcurrent == InitConcurrent /\ [][NextConcurrent]_vars

\* ------------------------------------------ claims: overlapping upserts
\* The identity keys of a record list, as the texts to_csv writes.
KeyTextsOfRecords(records) ==
    {[j \in 1..Len(StoreSubset) |-> CellText(records[i][StoreSubset[j]])] :
        i \in 1..Len(records)}

\* C13: the core needs no locking.  When two runs overlap, then for every
\* interleaving of their history read and write steps the history after both
\* finished contains every identity key that either run upserted (a numeral
\* possibly rewritten as the number it is read as).
C13_NoRowsLost ==
    (\A p \in Callers : cc_pc[p] = "done")
        => \A p \in Callers : \A k1 \in KeyTextsOfRecords(cc_records[p]) :
              \E k2 \in KeyTextsOf(cc_hist) : SameKeyTexts(k1, k2)

\* ------------------------------- battery prognosis (solar_pipeline.py)
\* A number of the calculation is an exact fraction [n, d] in lowest terms.
RECURSIVE GCD(_, _)
GCD(a, b) == IF b = 0 THEN a ELSE GCD(b, a % b)

Rat(n, d) == LET g == GCD(n, d) IN [n |-> n \div g, d |-> d \div g]

RMul(a, b) ==
    LET g1 == GCD(a.n, b.d)
        g2 == GCD(b.n, a.d)
    IN  Rat((a.n \div g1) * (b.n \div g2), (a.d \div g2) * (b.d \div g1))

RDiv(a, b) == RMul(a, [n |-> b.d, d |-> b.n])
RLess(a, b) == a.n * b.d < b.n * a.d
RLeq(a, b) == a.n * b.d <= b.n * a.d
RMin(a, b) == IF RLess(b, a) THEN b ELSE a

\* The digits of rem / d after the point, k of them, appended to q.
RECURSIVE LongDiv(_, _, _, _)
LongDiv(q, rem, d, k) ==
    IF k = 0 THEN [q |-> q, rem |-> rem]
    ELSE LongDiv(q * 10 + ((rem * 10) \div d), (rem * 10) % d, d, k - 1)

\* round(x, k), as a count of units of 10^-k.  A value exactly half way
\* between two such counts goes where its float approximation falls: to
\* q + tie, tie being 0 or 1.
RoundRat(x, k, tie) ==
    LET r == LongDiv(x.n \div x.d, x.n % x.d, x.d, k)
    IN  IF 2 * r.rem < x.d THEN r.q
        ELSE IF 2 * r.rem > x.d THEN r.q + 1
        ELSE r.q + tie

\* A configuration value: a number, a str that float() accepts, or another
\* value that float() rejects.
Number(n, d) == [kind |-> "number", v |-> Rat(n, d)]
NumericStr(n, d) == [kind |-> "numeric_str", v |-> Rat(n, d)]
NotANumber == [kind |-> "text", v |-> Rat(0, 1)]

\* panel_eff without the division of a percent-like value by 100.
panel_eff_NoPercent(panel_eff_raw) ==
    IF panel_eff_raw.kind = "text" THEN Rat(1, 5) ELSE panel_eff_raw.v

\* panel_eff: float(panel_eff_raw), 0.20 when that raises, and a value in
\* (1, 100] taken as a percentage.
panel_eff(panel_eff_raw) ==
    LET e == IF panel_eff_raw.kind = "text" THEN Rat(1, 5) ELSE panel_eff_raw.v
    IN  IF RLess(Rat(1, 1), e) /\ RLeq(e, Rat(100, 1)) THEN RDiv(e, Rat(100, 1)) ELSE e

\* per_panel_area * panel_eff * system_eff raises TypeError unless system_eff
\* is a number.
PrognosisRaises(config) == config.system.efficiency.kind # "number"

per_panel_yield_factor(config) ==
    RMul(RMul(config.solar_panel.area_per_panel_m2, panel_eff(config.solar_panel.efficiency)),
         config.system.efficiency.v)

total_panel_area(config) ==
    RMul(config.solar_panel.area_per_panel_m2, Rat(config.solar_panel.count, 1))

total_battery_capacity(config) ==
    RMul(config.battery.capacity_kwh_per_battery, Rat(config.battery.count, 1))

\* solar_rad: the record's SolarRadiation_kWh_m2 (held in units of 10^-6)
solar_rad(record) == Rat(record.SolarRadiation_kWh_m2, 1000000)

total_production(record, config) ==
    RMul(RMul(solar_rad(record), per_panel_yield_factor(config)),
         Rat(config.solar_panel.count, 1))

\* A variant of the charge percentage without the cap.
charge_pct_Uncapped(production, capacity) ==
    IF capacity.n > 0 THEN RMul(RDiv(production, capacity), Rat(100, 1)) ELSE Rat(0, 1)

\* charge_pct
charge_pct(production, capacity) ==
    IF capacity.n > 0
    THEN RMul(RDiv(RMin(production, capacity), capacity), Rat(100, 1))
    ELSE Rat(0, 1)

\* One entry of prognosis.  The rounded fields are counts of their last
\* decimal: TotalPanelArea_m2 in 10^-3, Production_kWh in 10^-2,
\* BatteryCapacity_kWh and ChargePercentage in 10^-1.
PrognosisRecord(record, config, tie) ==
    [PanelCount |-> config.solar_panel.count,
     TotalPanelArea_m2 |-> RoundRat(total_panel_area(config), 3, tie),
     Production_kWh |-> RoundRat(total_production(record, config), 2, tie),
     BatteryCount |-> config.battery.count,
     BatteryCapacity_kWh |-> RoundRat(total_battery_capacity(config), 1, tie),
     ChargePercentage |->
        RoundRat(charge_pct(total_production(record, config), total_battery_capacity(config)),
                 1, tie)] @@ record

\* The loop written with record.update({...}); prognosis.append(record): the
\* caller's records are the prognosis records after the call.
calculate_battery_prognosis_InPlace(daily_data, config, tie) ==
    IF PrognosisRaises(config)
    THEN [raised |-> TRUE, prognosis |-> <<>>, daily_data |-> daily_data, config |-> config]
    ELSE [raised |-> FALSE,
          prognosis |-> [i \in 1..Len(daily_data) |-> PrognosisRecord(daily_data[i], config, tie)],
          daily_data |-> [i \in 1..Len(daily_data) |-> PrognosisRecord(daily_data[i], config, tie)],
          config |-> config]

\* calculate_battery_prognosis(daily_data, config): whether it raised, the list
\* it returns, and the two arguments as the call leaves them (config is only
\* read with .get, every record only unpacked into a new dict).
calculate_battery_prognosis(daily_data, config, tie) ==
    IF PrognosisRaises(config)
    THEN [raised |-> TRUE, prognosis |-> <<>>, daily_data |-> daily_data, config |-> config]
    ELSE [raised |-> FALSE,
          prognosis |-> [i \in 1..Len(daily_data) |-> PrognosisRecord(daily_data[i], config, tie)],
          daily_data |-> daily_data,
          config |-> config]

\* ---- one call of calculate_battery_prognosis
\* Radiation values of the records, in units of 10^-7 kWh/m2: 0.5, 3.5, 30.0.
PrognosisRadiations == {5000000, 35000000, 300000000}

PrognosisNow == [date |-> datetime(2026, 1, 15), sec |-> 10 * 3600]

\* daily_data as extract_forecast returns it: consecutive dates.
RECURSIVE DailyDataOf(_, _)
DailyDataOf(values, first) ==
    IF values = <<>> THEN <<>>
    ELSE <<DailyRecord(first, Head(values), PrognosisNow)>> \o DailyDataOf(Tail(values), first + 1)

Configs ==
    [solar_panel : [count : {1, 4, 8},
                    area_per_panel_m2 : {Rat(18, 10)},
                    efficiency : {Number(1, 5), Number(20, 1), NumericStr(1, 5), NotANumber,
                                  Number(0, 1), Number(1, 1), Number(3, 2), Number(100, 1)}],
     battery : [count : {1, 2},
                capacity_kwh_per_battery : {Rat(0, 1), Rat(1, 2), Rat(10, 1)},
                max_charge_rate_kw_per_battery : {Rat(5, 1)}],
     system : [efficiency : {Number(17, 20), Number(1, 1), NotANumber}]]

InitPrognosis ==
    /\ pg_pc = "call"
    /\ pg_daily \in {DailyDataOf(values, datetime(2026, 1, 15)) :
                        values \in SeqsUpTo(PrognosisRadiations, MaxRecords)}
    /\ pg_config \in Configs
    /\ pg_out = <<>>
    /\ IdleParse
    /\ IdleExtract
    /\ IdleStore
    /\ IdlePipeline
    /\ IdleConcurrent
    /\ IdleConfig
    /\ IdleFetch

CallPrognosis ==
    /\ pg_pc = "call"
    /\ \E tie \in {0, 1} : pg_out' = calculate_battery_prognosis(pg_daily, pg_config, tie)
    /\ pg_daily' = pg_out'.daily_data
    /\ pg_config' = pg_out'.config
    /\ pg_pc' = "ret"
    /\ UNCHANGED <<pvars, evars, svars, lvars, cvars, fvars, hvars>>

NextPrognosis == CallPrognosis

SpecPrognosis == InitPrognosis /\ [][NextPrognosis]_vars

\* ------------------------------------------------ claims: the prognosis
\* The exact charge percentage of the i-th record of the call.
ExactCharge(i) ==
    LET P == total_production(pg_daily[i], pg_config)
        C == total_battery_capacity(pg_config)
    IN  IF C.n > 0 THEN RMul(RDiv(RMin(P, C), C), Rat(100, 1)) ELSE Rat(0, 1)

Returned == pg_pc = "ret" /\ ~pg_out.raised

C27_PrognosisPure ==
    [][(pg_pc = "call" /\ pg_pc' = "ret" /\ ~pg_out'.raised) =>
          /\ pg_daily' = pg_daily
          /\ pg_config' = pg_config
          /\ Len(pg_out'.prognosis) = Len(pg_daily)
          /\ \A i \in 1..Len(pg_daily) :
                \A f \in DOMAIN pg_daily[i] :
                    /\ f \in DOMAIN pg_out'.prognosis[i]
                    /\ pg_out'.prognosis[i][f] = pg_daily[i][f]]_vars

\* C27 witness: a call with two daily records of different dates returned two
\* prognosis records with those dates, in that order.
C27_Witness ==
    /\ Returned
    /\ Len(pg_daily) = 2
    /\ Len(pg_out.prognosis) = 2
    /\ pg_out.prognosis[1].Date = pg_daily[1].Date
    /\ pg_out.prognosis[2].Date = pg_daily[2].Date
    /\ pg_daily[1].Date # pg_daily[2].Date
    /\ pg_out.prognosis[1].PanelCount = pg_config.solar_panel.count

\* The fraction a numeric panel efficiency e stands for: e / 100 when
\* 1 < e <= 100, e itself otherwise.
EfficiencyFraction(e) ==
    IF e.n > e.d /\ e.n <= 100 * e.d THEN Rat(e.n, e.d * 100) ELSE e

\* The production of record i with the panel efficiency taken as fraction f.
ProductionWith(i, f) ==
    RMul(RMul(RMul(RMul(solar_rad(pg_daily[i]), pg_config.solar_panel.area_per_panel_m2), f),
              pg_config.system.efficiency.v),
         Rat(pg_config.solar_panel.count, 1))

\* The call's panel efficiency is a number in [0, 100].
NumericEfficiency ==
    /\ pg_config.solar_panel.efficiency.kind = "number"
    /\ pg_config.solar_panel.efficiency.v.n >= 0
    /\ pg_config.solar_panel.efficiency.v.n <= 100 * pg_config.solar_panel.efficiency.v.d

\* C25: a numeric panel efficiency e in (1, 100] enters the production formula
\* as e / 100 and an e in [0, 1] as it is, so the efficiency used is a fraction
\* in [0, 1].
C25_EfficiencyNormalized ==
    (Returned /\ NumericEfficiency) =>
        LET f == EfficiencyFraction(pg_config.solar_panel.efficiency.v)
        IN  /\ f.n >= 0
            /\ f.n <= f.d
            /\ \A i \in 1..Len(pg_out.prognosis) :
                  \E tie \in {0, 1} :
                      pg_out.prognosis[i].Production_kWh = RoundRat(ProductionWith(i, f), 2, tie)

\* C25 witness: a call with the percent-like efficiency 20 returned a record
\* whose production is that of the fraction 0.20 and is not zero.
C25_Witness ==
    /\ Returned
    /\ pg_config.solar_panel.efficiency = Number(20, 1)
    /\ Len(pg_out.prognosis) >= 1
    /\ pg_out.prognosis[1].Production_kWh > 0
    /\ \E tie \in {0, 1} :
          pg_out.prognosis[1].Production_kWh = RoundRat(ProductionWith(1, Rat(1, 5)), 2, tie)

\* The configuration with the documented default in the place of every
\* efficiency that float() rejects: 0.20 for the panels, 0.85 for the system.
WithDefaultEfficiency(config) ==
    [config EXCEPT
        !.solar_panel.efficiency = IF @.kind = "text" THEN Number(1, 5) ELSE @,
        !.system.efficiency = IF @.kind = "text" THEN Number(17, 20) ELSE @]

NotCoercible(config) ==
    config.solar_panel.efficiency.kind = "text" \/ config.system.efficiency.kind = "text"

\* C15: for every configuration in which the panel efficiency or the system
\* efficiency is not coercible to a number, calculate_battery_prognosis
\* completes without raising and computes with the default value for that
\* efficiency.
C15_EfficiencyFallback ==
    (pg_pc = "ret" /\ NotCoercible(pg_config))
        => /\ ~pg_out.raised
           /\ \E tie \in {0, 1} :
                 pg_out = calculate_battery_prognosis(pg_daily, WithDefaultEfficiency(pg_config), tie)

\* ------------------------------------- run_pipeline (solar_pipeline.py)
\* extract_forecast(html) as one function of the page, today and the clock.
RECURSIVE ScanHeaders(_, _, _, _)
ScanHeaders(st, elems, toks, today) ==
    IF elems = <<>> THEN st
    ELSE ScanHeaders(ScanHeader(st, Head(elems), toks, today), Tail(elems), toks, today)

RECURSIVE ProcessMarkers(_, _, _, _, _)
ProcessMarkers(st, toks, ms, today, now) ==
    IF ms = <<>> THEN st
    ELSE ProcessMarkers(ProcessMarker(st, toks, Head(ms), today, now), toks, Tail(ms), today, now)

extract_forecast(page, today, now) ==
    LET toks == AllText(page)
        headers == ScanHeaders(ExInitial(today), date_elements(page), toks, today)
        markers == ProcessMarkers(headers, toks, total_matches(toks), today, now)
    IN  [daily |-> FinishDaily(markers.daily), hourly |-> markers.hourly]

\* The records as the dicts of Python values handed to the store, and their
\* keys in insertion order.
DailyColumns ==
    <<"Date", "DayName", "SolarRadiation_kWh_m2", "SolarRadiation_Wh_m2", "Source", "FetchedAt">>

HourlyColumns ==
    <<"Date", "Time", "SolarRadiation_W_m2", "SolarRadiation_Wh_m2", "Source", "FetchedAt">>

PrognosisColumns ==
    DailyColumns \o <<"PanelCount", "TotalPanelArea_m2", "Production_kWh", "BatteryCount",
                      "BatteryCapacity_kWh", "ChargePercentage", "ConfigHash">>

DailyRow(rec) ==
    [Date |-> PyStr(rec.Date),
     DayName |-> PyStr(rec.DayName),
     SolarRadiation_kWh_m2 |-> PyFloat(rec.SolarRadiation_kWh_m2, 6),
     SolarRadiation_Wh_m2 |-> PyFloat(rec.SolarRadiation_Wh_m2, 2),
     Source |-> PyStr(rec.Source),
     FetchedAt |-> PyStr(rec.FetchedAt)]

\* hour_value is a float: round(hour_value, 2) of a whole number n is n.0
HourlyRow(rec) ==
    [Date |-> PyStr(rec.Date),
     Time |-> PyStr(rec.Time),
     SolarRadiation_W_m2 |-> PyFloat(rec.SolarRadiation_W_m2 * 10, 1),
     SolarRadiation_Wh_m2 |-> PyFloat(rec.SolarRadiation_Wh_m2 * 10, 1),
     Source |-> PyStr(rec.Source),
     FetchedAt |-> PyStr(rec.FetchedAt)]

\* charge_pct is the int 0 when the total capacity is not positive.
PrognosisRow(rec, config) ==
    [PanelCount |-> PyInt(rec.PanelCount),
     TotalPanelArea_m2 |-> PyFloat(rec.TotalPanelArea_m2, 3),
     Production_kWh |-> PyFloat(rec.Production_kWh, 2),
     BatteryCount |-> PyInt(rec.BatteryCount),
     BatteryCapacity_kWh |-> PyFloat(rec.BatteryCapacity_kWh, 1),
     ChargePercentage |-> IF total_battery_capacity(config).n > 0
                          THEN PyFloat(rec.ChargePercentage, 1) ELSE PyInt(0),
     ConfigHash |-> PyStr(rec.ConfigHash)] @@ DailyRow(rec)

Rows(records, Row(_)) == [i \in 1..Len(records) |-> Row(records[i])]

\* The configurations of the runs.
ConfigDeinze ==
    [location |-> "Deinze",
     fallback_url |-> <<"https://en.tutiempo.net/solar-radiation/deinze.html">>,
     solar_panel |-> [count |-> 4, area_per_panel_m2 |-> Rat(18, 10), efficiency |-> Number(1, 5)],
     battery |-> [count |-> 1, capacity_kwh_per_battery |-> Rat(10, 1),
                  max_charge_rate_kw_per_battery |-> Rat(5, 1)],
     system |-> [efficiency |-> Number(17, 20)]]

ConfigEightPanels == [ConfigDeinze EXCEPT !.solar_panel.count = 8]
ConfigBadSystem == [ConfigDeinze EXCEPT !.system.efficiency = NotANumber]
ConfigNoFallback == [ConfigDeinze EXCEPT !.fallback_url = <<>>]

PipelineConfigs == {ConfigDeinze, ConfigEightPanels, ConfigBadSystem, ConfigNoFallback}

\* The part of the configuration _config_hash digests.
relevant(config) ==
    [location |-> config.location, solar_panel |-> config.solar_panel,
     battery |-> config.battery, system |-> config.system]

\* _config_hash(config): a string of hexadecimal digits (shortened to two)
\* that depends on relevant(config) only; some digests hold decimal digits only.
config_hash(config) ==
    IF relevant(config) = relevant(ConfigDeinze) THEN <<"a", "1">>
    ELSE IF relevant(config) = relevant(ConfigEightPanels) THEN <<"0", "7">>
    ELSE <<"c", "3">>

\* find_url: the first candidate URL whose page mentions solar radiation,
\* else the configured fallback URL; <<>> when that is empty.
find_url(found, config) == IF found THEN <<"candidate">> ELSE config.fallback_url

FileNames ==
    {"daily_snapshot", "hourly_snapshot", "prognosis_snapshot",
     "daily_history", "hourly_history", "prognosis_history", "report"}

\* generate_html_report: the report lists the days of the prognosis.
generate_html_report(prognosis_data) ==
    [exists |-> TRUE, ok |-> TRUE, cols |-> <<"Date">>,
     rows |-> [i \in 1..Len(prognosis_data) |-> <<prognosis_data[i].Date>>]]

Ended(files, ret, written, daily_data, hourly_data, prognosis_data) ==
    [files |-> files, ret |-> ret, written |-> written, daily_data |-> daily_data,
     hourly_data |-> hourly_data, prognosis_data |-> prognosis_data]

\* The six writes of run_pipeline: per file, the file afterwards and the
\* writer's return value.
Writes(files, daily_rows, hourly_rows, prognosis_rows) ==
    [f \in FileNames \ {"report"} |->
        CASE f = "daily_snapshot" ->
                write_snapshot_csv(daily_rows, DailyColumns, files[f])
          [] f = "hourly_snapshot" ->
                write_snapshot_csv(hourly_rows, HourlyColumns, files[f])
          [] f = "prognosis_snapshot" ->
                write_snapshot_csv(prognosis_rows, PrognosisColumns, files[f])
          [] f = "daily_history" ->
                upsert_history_csv(daily_rows, DailyColumns, files[f],
                    <<"Date", "SolarRadiation_kWh_m2", "SolarRadiation_Wh_m2", "Source">>,
                    <<"Date", "FetchedAt">>)
          [] f = "hourly_history" ->
                upsert_history_csv(hourly_rows, HourlyColumns, files[f],
                    <<"Date", "Time", "SolarRadiation_W_m2", "SolarRadiation_Wh_m2", "Source">>,
                    <<"Date", "Time", "FetchedAt">>)
          [] f = "prognosis_history" ->
                upsert_history_csv(prognosis_rows, PrognosisColumns, files[f],
                    <<"Date", "DayName", "SolarRadiation_kWh_m2", "SolarRadiation_Wh_m2",
                      "Source", "PanelCount", "TotalPanelArea_m2", "Production_kWh",
                      "BatteryCount", "BatteryCapacity_kWh", "ChargePercentage", "ConfigHash">>,
                    <<"Date", "FetchedAt", "ConfigHash">>)]

\* The end of a run that got as far as writing: the report is generated and
\* True returned.
Persisted(out, daily_data, hourly_data, prognosis_data) ==
    Ended([f \in FileNames |->
              IF f = "report" THEN generate_html_report(prognosis_data) ELSE out[f].file],
          "True",
          {f \in FileNames \ {"report"} : out[f].ret} \cup {"report"},
          daily_data, hourly_data, prognosis_data)

PrognosisRows(prognosis_data, config) ==
    [i \in 1..Len(prognosis_data) |-> PrognosisRow(prognosis_data[i], config)]

\* for rec in prognosis_data: rec["ConfigHash"] = cfg_hash
WithConfigHash(prognosis_data, cfg_hash) ==
    [i \in 1..Len(prognosis_data) |-> [ConfigHash |-> cfg_hash] @@ prognosis_data[i]]

\* run_pipeline from the prognosis on.
AfterExtract(config, files, daily_data, hourly_data, pr) ==
    IF pr.raised THEN Ended(files, "raised", {}, daily_data, hourly_data, <<>>)
    ELSE Persisted(Writes(files, Rows(daily_data, DailyRow), Rows(hourly_data, HourlyRow),
                          PrognosisRows(WithConfigHash(pr.prognosis, config_hash(config)), config)),
                   daily_data, hourly_data,
                   WithConfigHash(pr.prognosis, config_hash(config)))

\* run_pipeline from the extracted data on, without `if not daily_data`.
AfterFetch_Unguarded(config, files, ex, tie) ==
    AfterExtract(config, files, ex.daily, ex.hourly,
                 calculate_battery_prognosis(ex.daily, config, tie))

\* run_pipeline from the extracted data on.
AfterFetch(config, files, ex, tie) ==
    IF ex.daily = <<>> THEN Ended(files, "False", {}, ex.daily, ex.hourly, <<>>)
    ELSE AfterExtract(config, files, ex.daily, ex.hourly,
                      calculate_battery_prognosis(ex.daily, config, tie))

\* `not html`: fetch_html returned None (<<>>) or an empty text (<<page>>
\* with the empty page).
NotHtml(html) == html = <<>> \/ html[1] = <<>>

\* run_pipeline(config).  found: a candidate URL answered; html: what
\* fetch_html returned.
run_pipeline(config, found, html, files, today, now, tie) ==
    IF find_url(found, config) = <<>> THEN Ended(files, "False", {}, <<>>, <<>>, <<>>)
    ELSE IF NotHtml(html) THEN Ended(files, "False", {}, <<>>, <<>>, <<>>)
    ELSE AfterFetch(config, files, extract_forecast(html[1], today, now), tie)

\* ---- runs of the pipeline
PageTwoDays ==
    <<Segment(FALSE, <<Word(w_Today), Hourly(9, 0, 10), Hourly(10, 0, 40)>>),
      Segment(FALSE, <<Marker(5000, "wh")>>),
      Segment(FALSE, <<Word(w_Tomorrow)>>),
      Segment(FALSE, <<Marker(5000, "wh")>>)>>

PageOneDay ==
    <<Segment(FALSE, <<Word(w_Today)>>), Segment(FALSE, <<Marker(35, "kwh")>>)>>

PageNoMarkers == <<Segment(FALSE, <<Word(w_Today)>>)>>

PageEmpty == <<>>

PipelinePages == {PageTwoDays, PageOneDay, PageNoMarkers, PageEmpty}

PipelineToday == datetime(2026, 1, 15)

PipelineNow == [date |-> PipelineToday, sec |-> 10 * 3600 + pl_runs]

InitPipeline ==
    /\ pl_files = [f \in FileNames |-> NoFile]
    /\ pl_before = [f \in FileNames |-> NoFile]
    /\ pl_run = [config |-> ConfigDeinze, found |-> FALSE, html |-> <<>>,
                 ret |-> "none", written |-> {},
                 daily_data |-> <<>>, hourly_data |-> <<>>, prognosis_data |-> <<>>]
    /\ pl_runs = 0
    /\ IdleParse
    /\ IdleExtract
    /\ IdleStore
    /\ IdlePrognosis
    /\ IdleConcurrent
    /\ IdleConfig
    /\ IdleFetch

\* The files and the record of a run that ended as r.
RunEnded(config, found, html, r) ==
    /\ pl_files' = r.files
    /\ pl_run' = [config |-> config, found |-> found, html |-> html,
                  ret |-> r.ret, written |-> r.written,
                  daily_data |-> r.daily_data, hourly_data |-> r.hourly_data,
                  prognosis_data |-> r.prognosis_data]

RunPipeline ==
    /\ pl_runs < MaxRuns
    /\ \E config \in PipelineConfigs, found \in BOOLEAN, tie \in {0, 1},
          html \in {<<>>} \cup {<<page>> : page \in PipelinePages} :
          RunEnded(config, found, html,
                   run_pipeline(config, found, html, pl_files, PipelineToday, PipelineNow, tie))
    /\ pl_before' = pl_files
    /\ pl_runs' = pl_runs + 1
    /\ UNCHANGED <<pvars, evars, svars, gvars, cvars, fvars, hvars>>

NextPipeline == RunPipeline

SpecPipeline == InitPipeline /\ [][NextPipeline]_vars

\* ------------------------------------- the configuration (config.py)
\* Python dicts are objects: a name or a dict entry holds a reference to one.
\* The heap maps an address to the dict stored there; an entry of a dict is a
\* scalar (its text) or a reference to another dict.
Val(text) == [k |-> "val", a |-> text]
Ref(addr) == [k |-> "ref", a |-> addr]

\* The address of the module-level dict DEFAULT_CONFIG.
DEFAULT_CONFIG == <<"DEFAULT_CONFIG">>

\* The dicts the module creates when it is imported.
DefaultHeap ==
    (DEFAULT_CONFIG :>
        [location |-> Val(<<"Deinze">>),
         base_url |-> Val(<<"https://en.tutiempo.net">>),
         fallback_url |-> Val(<<"https://en.tutiempo.net/solar-radiation/deinze.html">>),
         max_retries |-> Val(<<"3">>),
         retry_delay |-> Val(<<"2">>),
         timeout |-> Val(<<"1", "0">>),
         solar_panel |-> Ref(<<"DEFAULT_CONFIG", "solar_panel">>),
         system |-> Ref(<<"DEFAULT_CONFIG", "system">>),
         battery |-> Ref(<<"DEFAULT_CONFIG", "battery">>)])
    @@ (<<"DEFAULT_CONFIG", "solar_panel">> :>
        [count |-> Val(<<"8">>), efficiency |-> Val(<<"0", ".", "2">>),
         area_per_panel_m2 |-> Val(<<"1", ".", "8">>)])
    @@ (<<"DEFAULT_CONFIG", "system">> :> [efficiency |-> Val(<<"0", ".", "8", "5">>)])
    @@ (<<"DEFAULT_CONFIG", "battery">> :>
        [count |-> Val(<<"1">>), capacity_kwh_per_battery |-> Val(<<"1", "0", ".", "0">>),
         max_charge_rate_kw_per_battery |-> Val(<<"5", ".", "0">>)])

\* The keys of a dict that hold a dict / a scalar.
DictKeys(heap, addr) == {key \in DOMAIN heap[addr] : heap[addr][key].k = "ref"}
ScalarKeys(heap, addr) == {key \in DOMAIN heap[addr] : heap[addr][key].k = "val"}

\* The value of a configuration, references followed: its scalars by path.
Flat(heap, addr) ==
    {[path |-> <<key>>, v |-> heap[addr][key].a] : key \in ScalarKeys(heap, addr)}
    \cup UNION {{[path |-> <<key, sub>>, v |-> heap[heap[addr][key].a][sub].a] :
                    sub \in ScalarKeys(heap, heap[addr][key].a)} :
                key \in DictKeys(heap, addr)}

\* config.yaml: absent, unreadable (yaml.safe_load raises, or the document
\* is no mapping), or a mapping of scalars and of nested mappings of scalars.
NoYaml == [exists |-> FALSE, ok |-> FALSE, top |-> <<>>, nested |-> <<>>]
BadYaml == [exists |-> TRUE, ok |-> FALSE, top |-> <<>>, nested |-> <<>>]
Yaml(top, nested) == [exists |-> TRUE, ok |-> TRUE, top |-> top, nested |-> nested]

\* yaml.safe_load(f) or {}: fresh dicts for the document and its mappings.
safe_load(heap, file) ==
    (<<"yaml">> :> [key \in DOMAIN file.top \cup DOMAIN file.nested |->
                      IF key \in DOMAIN file.nested THEN Ref(<<"yaml", key>>)
                      ELSE file.top[key]])
    @@ [addr \in {<<"yaml", key>> : key \in DOMAIN file.nested} |-> file.nested[addr[2]]]
    @@ heap

\* The keys for which _deep_merge calls itself: the value is a dict and so is
\* the entry of base.
MergedKeys(heap, base, updates) ==
    {key \in DictKeys(heap, updates) : key \in DictKeys(heap, base)}

\* merged = dict(base), then merged[key] = ... for every key of updates: the
\* entries of base that updates does not name are copied as they are, a
\* reference as a reference.
MergedDict(heap, base, updates, dst) ==
    [key \in DOMAIN heap[base] \cup DOMAIN heap[updates] |->
        IF key \in MergedKeys(heap, base, updates) THEN Ref(dst \o <<key>>)
        ELSE IF key \in DOMAIN heap[updates] THEN heap[updates][key]
        ELSE heap[base][key]]

\* _deep_merge(base, updates): the heap with the merged dict at dst and the
\* dicts of the recursive calls at dst + key.
RECURSIVE DeepMerge(_, _, _, _)
RECURSIVE MergeKeys(_, _, _, _, _)
MergeKeys(heap, base, updates, dst, keys) ==
    IF keys = {} THEN heap
    ELSE MergeKeys(DeepMerge(heap, heap[base][CHOOSE key \in keys : TRUE].a,
                             heap[updates][CHOOSE key \in keys : TRUE].a,
                             dst \o <<CHOOSE key \in keys : TRUE>>),
                   base, updates, dst, keys \ {CHOOSE key \in keys : TRUE})

DeepMerge(heap, base, updates, dst) ==
    (dst :> MergedDict(heap, base, updates, dst))
    @@ MergeKeys(heap, base, updates, dst, MergedKeys(heap, base, updates))

\* load_config(): the heap afterwards and the address of the returned dict.
load_config(heap, file) ==
    IF file.exists /\ file.ok
    THEN [heap |-> DeepMerge(safe_load(heap, file), DEFAULT_CONFIG, <<"yaml">>, <<"merged">>),
          cfg |-> <<"merged">>]
    ELSE [heap |-> heap, cfg |-> DEFAULT_CONFIG]

\* The values of the GUI form.
Form(count, eff, batteries) ==
    [panel_count |-> count, panel_eff |-> eff, battery_count |-> batteries]

\* max(1, n), as str() writes it
AtLeastOne(n) == ZeroPad(IF n < 1 THEN 1 ELSE n, 1)

\* cfg[key].update(entries), for the dict cfg[key] refers to
Update(heap, cfg, key, entries) ==
    [heap EXCEPT ![heap[cfg][key].a] = entries @@ @]

\* cfg[key] = cfg.get(key, {})
GetOrNew(heap, cfg, key) ==
    IF key \in DOMAIN heap[cfg] THEN heap
    ELSE (<<"form", key>> :> <<>>) @@ [heap EXCEPT ![cfg] = (key :> Ref(<<"form", key>>)) @@ @]

\* The two update calls of _build_config_from_form on the dict at cfg.
Filled(heap, cfg, form) ==
    Update(Update(heap, cfg, "solar_panel",
                  [count |-> Val(AtLeastOne(form.panel_count)),
                   efficiency |-> Val(form.panel_eff),
                   area_per_panel_m2 |-> Val(<<"1", ".", "8">>)]),
           cfg, "battery",
           [count |-> Val(AtLeastOne(form.battery_count)),
            capacity_kwh_per_battery |-> Val(<<"1", "0", ".", "0">>),
            max_charge_rate_kw_per_battery |-> Val(<<"5", ".", "0">>)])

\* cfg['solar_panel'].update raises when config.yaml gave the key a scalar.
BuildRaises(heap, cfg) ==
    \E key \in {"solar_panel", "battery"} :
        key \in DOMAIN heap[cfg] /\ heap[cfg][key].k = "val"

\* _build_config_from_form from the loaded configuration on.
Built(loaded, form) ==
    IF BuildRaises(loaded.heap, loaded.cfg)
    THEN [heap |-> loaded.heap, cfg |-> loaded.cfg, raised |-> TRUE]
    ELSE [heap |-> Filled(GetOrNew(GetOrNew(loaded.heap, loaded.cfg, "solar_panel"),
                                   loaded.cfg, "battery"),
                          loaded.cfg, form),
          cfg |-> loaded.cfg, raised |-> FALSE]

\* _build_config_from_form(): the heap afterwards and the address of cfg.
build_config_from_form(heap, file, form) == Built(load_config(heap, file), form)

\* yaml.safe_dump(cfg, f, sort_keys=False)
safe_dump(heap, cfg) ==
    Yaml([key \in ScalarKeys(heap, cfg) |-> heap[cfg][key]],
         [key \in DictKeys(heap, cfg) |-> heap[heap[cfg][key].a]])

\* The dicts that outlive an operation: those DEFAULT_CONFIG refers to.
Kept(heap) ==
    [addr \in {DEFAULT_CONFIG} \cup {heap[DEFAULT_CONFIG][key].a :
                                        key \in DictKeys(heap, DEFAULT_CONFIG)} |-> heap[addr]]

\* ---- operations on the configuration
Forms ==
    {Form(8, <<"0", ".", "2">>, 1), Form(12, <<"0", ".", "2", "2">>, 2),
     Form(0, <<"0", ".", "2">>, 1)}

YamlFiles ==
    {NoYaml, BadYaml,
     Yaml(<<>>, <<>>),
     Yaml([location |-> Val(<<"Gent">>)], <<>>),
     Yaml(<<>>, [solar_panel |-> [count |-> Val(<<"4">>)]]),
     Yaml([solar_panel |-> Val(<<"none">>)], <<>>)}

InitConfig ==
    /\ cf_heap = DefaultHeap
    /\ cf_file = NoYaml
    /\ cf_op = [name |-> "import", no_file |-> TRUE, raised |-> FALSE,
                cfg |-> Flat(DefaultHeap, DEFAULT_CONFIG)]
    /\ cf_ops = 0
    /\ IdleParse
    /\ IdleExtract
    /\ IdleStore
    /\ IdlePrognosis
    /\ IdlePipeline
    /\ IdleConcurrent
    /\ IdleFetch

\* The operation name ended with the configuration at r.cfg.
ConfigOp(name, r, raised) ==
    /\ cf_heap' = Kept(r.heap)
    /\ cf_op' = [name |-> name, no_file |-> ~cf_file.exists, raised |-> raised,
                 cfg |-> Flat(r.heap, r.cfg)]
    /\ cf_ops' = cf_ops + 1

\* main(), run_pipeline(None) or PrognosisViewer.__init__: config = load_config()
LoadConfig ==
    /\ cf_ops < MaxOps
    /\ ConfigOp("load_config", load_config(cf_heap, cf_file), FALSE)
    /\ UNCHANGED cf_file
    /\ UNCHANGED <<pvars, evars, svars, gvars, lvars, cvars, hvars>>

\* _run_with_settings: cfg = self._build_config_from_form(); run_pipeline(cfg)
RunWithSettingsEnded(r) == ConfigOp("run_with_settings", r, r.raised)

RunWithSettings ==
    /\ cf_ops < MaxOps
    /\ \E form \in Forms : RunWithSettingsEnded(build_config_from_form(cf_heap, cf_file, form))
    /\ UNCHANGED cf_file
    /\ UNCHANGED <<pvars, evars, svars, gvars, lvars, cvars, hvars>>

\* _save_and_run: cfg = self._build_config_from_form(); yaml.safe_dump(cfg, f);
\* run_pipeline(cfg)
SaveAndRunEnded(r) ==
    /\ ConfigOp("save_and_run", r, r.raised)
    /\ cf_file' = IF r.raised THEN cf_file ELSE safe_dump(r.heap, r.cfg)

SaveAndRun ==
    /\ cf_ops < MaxOps
    /\ \E form \in Forms : SaveAndRunEnded(build_config_from_form(cf_heap, cf_file, form))
    /\ UNCHANGED <<pvars, evars, svars, gvars, lvars, cvars, hvars>>

\* The user edits or removes config.yaml.
EditConfigFile ==
    /\ cf_ops < MaxOps
    /\ \E file \in YamlFiles : cf_file' = file
    /\ cf_file' # cf_file
    /\ cf_ops' = cf_ops + 1
    /\ UNCHANGED <<cf_heap, cf_op>>
    /\ UNCHANGED <<pvars, evars, svars, gvars, lvars, cvars, hvars>>

NextConfig == LoadConfig \/ RunWithSettings \/ SaveAndRun \/ EditConfigFile

SpecConfig == InitConfig /\ [][NextConfig]_vars

\* ----------------------------------------- claims: the configuration
\* C14: the default configuration is immutable.  No sequence of load_config
\* calls and GUI build/run operations changes the value of DEFAULT_CONFIG or
\* of its nested mappings, and a load_config with no config file returns the
\* original defaults.
C14_DefaultImmutable ==
    /\ Flat(cf_heap, DEFAULT_CONFIG) = Flat(DefaultHeap, DEFAULT_CONFIG)
    /\ (cf_op.name = "load_config" /\ cf_op.no_file)
          => cf_op.cfg = Flat(DefaultHeap, DEFAULT_CONFIG)

\* --------------------------------------------- fetch_html (solar_pipeline.py)
\* What one requests.get(...) / raise_for_status() does: it gives a response
\* with a text, raises a requests.RequestException, or raises another error.
Ok(text) == [out |-> "ok", text |-> text]
RequestError == [out |-> "request_error", text |-> <<>>]
OtherError == [out |-> "other_error", text |-> <<>>]

FetchOutcomes == {Ok(<<"a">>), Ok(<<"b">>), Ok(<<>>), RequestError, OtherError}

\* The entries of the log: a request made in iteration n, a time.sleep(secs).
Get(n, o) == [e |-> "get", n |-> n, out |-> o.out, text |-> o.text, secs |-> 0]
Sleep(secs) == [e |-> "sleep", n |-> 0, out |-> "", text |-> <<>>, secs |-> secs]

\* The except branch that sleeps whatever the attempt is.
WaitAfter_Always(attempt, max_retries, retry_delay) == <<Sleep(retry_delay * attempt)>>

\* `if attempt < max_retries: time.sleep(retry_delay * attempt)`
WaitAfter(attempt, max_retries, retry_delay) ==
    IF attempt < max_retries THEN <<Sleep(retry_delay * attempt)>> ELSE <<>>

InitFetch ==
    /\ fh_pc = "loop"
    /\ fh_max \in 0..MaxRetries
    /\ fh_delay \in 0..MaxDelay
    /\ fh_attempt = 1
    /\ fh_log = <<>>
    /\ fh_ret = <<>>
    /\ IdleParse
    /\ IdleExtract
    /\ IdleStore
    /\ IdlePrognosis
    /\ IdlePipeline
    /\ IdleConcurrent
    /\ IdleConfig

\* One iteration of `for attempt in range(1, max_retries + 1)`.
FetchAttempt ==
    /\ fh_pc = "loop"
    /\ fh_attempt <= fh_max
    /\ \E o \in FetchOutcomes :
        /\ fh_log' = Append(fh_log, Get(fh_attempt, o))
                        \o (IF o.out = "request_error"
                            THEN WaitAfter(fh_attempt, fh_max, fh_delay) ELSE <<>>)
        /\ fh_pc' = CASE o.out = "ok" -> "ret"
                      [] o.out = "request_error" -> "loop"
                      [] OTHER -> "raised"
        /\ fh_ret' = IF o.out = "ok" THEN << <<o.text>> >> ELSE fh_ret
        /\ fh_attempt' = IF o.out = "request_error" THEN fh_attempt + 1 ELSE fh_attempt
    /\ UNCHANGED <<fh_max, fh_delay>>
    /\ UNCHANGED <<pvars, evars, svars, gvars, lvars, cvars, fvars>>

\* The loop is over: return None.
FetchGiveUp ==
    /\ fh_pc = "loop"
    /\ fh_attempt > fh_max
    /\ fh_ret' = << <<>> >>
    /\ fh_pc' = "ret"
    /\ UNCHANGED <<fh_max, fh_delay, fh_attempt, fh_log>>
    /\ UNCHANGED <<pvars, evars, svars, gvars, lvars, cvars, fvars>>

NextFetch == FetchAttempt \/ FetchGiveUp

SpecFetch == InitFetch /\ [][NextFetch]_vars

\* ------------------------------------------------------ claims: fetch_html
\* The positions of the requests in the log.
GetsMade == {i \in 1..Len(fh_log) : fh_log[i].e = "get"}

\* C26: fetch_html makes at most max_retries requests; it returns the text of
\* the first request that succeeds and makes no request after it; it returns
\* None exactly when all max_retries requests failed with a request error; and it
\* waits after a failed request only when another request follows.
C26_FetchRetries ==
    /\ Cardinality(GetsMade) <= fh_max
    /\ \A i \in GetsMade : fh_log[i].out = "ok" => (i = Len(fh_log) /\ fh_pc = "ret")
    /\ fh_pc = "ret" =>
          /\ fh_ret # <<>>
          /\ fh_ret[1] # <<>> =>
                /\ fh_log # <<>>
                /\ fh_log[Len(fh_log)].out = "ok"
                /\ fh_ret[1] = <<fh_log[Len(fh_log)].text>>
          /\ fh_ret[1] = <<>> <=>
                /\ Cardinality(GetsMade) = fh_max
                /\ \A i \in GetsMade : fh_log[i].out = "request_error"
          /\ fh_log # <<>> => fh_log[Len(fh_log)].e = "get"
    /\ \A i \in 1..Len(fh_log) :
          fh_log[i].e = "sleep" =>
              /\ i > 1
              /\ fh_log[i - 1].e = "get"
              /\ fh_log[i - 1].out = "request_error"
              /\ fh_log[i - 1].n < fh_max
              /\ fh_log[i].secs = fh_delay * fh_log[i - 1].n
    /\ \A i \in GetsMade :
          (fh_log[i].out = "request_error" /\ fh_log[i].n < fh_max)
              => (i < Len(fh_log) /\ fh_log[i + 1].e = "sleep")

\* C26 witness: the second request succeeded after one failed request and one
\* wait, and its text was returned.
C26_Witness ==
    /\ fh_pc = "ret"
    /\ fh_max >= 3
    /\ Len(fh_log) = 3
    /\ fh_log[1].out = "request_error"
    /\ fh_log[2].e = "sleep"
    /\ fh_log[2].secs > 0
    /\ fh_log[3].out = "ok"
    /\ fh_ret = << <<fh_log[3].text>> >>

\* ------------------------------------------------- claims: the pipeline
SixFiles == FileNames \ {"report"}

\* C4: every run is all-or-nothing across the three datasets: it either
\* writes this run's data to all six files (snapshot and history of daily,
\* hourly and prognosis), or ends having modified none of them.
C4_AllOrNothing ==
    pl_runs > 0 =>
        \/ SixFiles \subseteq pl_run.written
        \/ \A f \in SixFiles : pl_files[f] = pl_before[f]

\* The file a snapshot table is when it holds exactly these rows.
SnapshotOf(rows, columns) == to_csv(DataFrame(rows, columns))

\* C11: after every run that returned True, each of the three snapshot
\* tables (daily, hourly, prognosis) holds exactly the records that run
\* produced, and no row left over from an earlier run.
C11_SnapshotsHoldThisRun ==
    pl_run.ret = "True" =>
        /\ pl_files["daily_snapshot"].rows
              = SnapshotOf(Rows(pl_run.daily_data, DailyRow), DailyColumns).rows
        /\ pl_files["hourly_snapshot"].rows
              = SnapshotOf(Rows(pl_run.hourly_data, HourlyRow), HourlyColumns).rows
        /\ pl_files["prognosis_snapshot"].rows
              = SnapshotOf(PrognosisRows(pl_run.prognosis_data, pl_run.config),
                           PrognosisColumns).rows

\* The file has a row with this Date and this ConfigHash.
HasRow(file, date, hash) ==
    \E i \in 1..Len(file.rows) :
        /\ file.rows[i][ColumnIndex(file.cols, "Date")] = date
        /\ file.rows[i][ColumnIndex(file.cols, "ConfigHash")] = hash

\* A successful run follows a successful run on the same page, with a
\* configuration that differs in a field the config hash covers.
SameForecastOtherConfig ==
    /\ pl_run.ret = "True"
    /\ pl_run'.ret = "True"
    /\ pl_runs' = pl_runs + 1
    /\ pl_run'.html = pl_run.html
    /\ relevant(pl_run'.config) # relevant(pl_run.config)
    /\ config_hash(pl_run'.config) # config_hash(pl_run.config)

NothingFetched ==
    /\ pl_runs > 0
    /\ \/ NotHtml(pl_run.html)
       \/ total_matches(AllText(pl_run.html[1])) = <<>>

\* C17: when the fetch returns None or an empty text, or the page yields
\* zero markers, run_pipeline returns False and writes to no snapshot or
\* history file: every file is as it was before the run.
C17_NothingFetchedNoWrite ==
    NothingFetched =>
        /\ pl_run.ret = "False"
        /\ \A f \in SixFiles : pl_files[f] = pl_before[f]

\* C17 witness: after a run that wrote the files, a run found a URL, fetched
\* a page without markers, returned False and left the files as they were.
C17_Witness ==
    /\ pl_runs = 2
    /\ find_url(pl_run.found, pl_run.config) # <<>>
    /\ pl_run.html = <<PageNoMarkers>>
    /\ pl_run.ret = "False"
    /\ pl_before["daily_history"].exists
    /\ pl_files = pl_before

====
